---------------------------- MODULE Spec2Model ----------------------------
(***************************************************************************)
(* Model of the bank-statement processing pipeline.                        *)
(*                                                                         *)
(*   - structure analysis and chunk scheduler:                             *)
(*     gpt_service.analyze_table_structure, extract_transactions and       *)
(*     categorize_transactions with their chunk workers                    *)
(*     process_chunk_async / process_categorization_chunk_async            *)
(*     (specification Spec);                                               *)
(*   - task state store: celery_tasks.process_bank_statement and           *)
(*     celery_tasks.set_task_status (specification SpecTask), and with     *)
(*     the polling endpoint routers/statements.check_bs_status and the     *)
(*     expiry of entries (specification SpecStore);                        *)
(*   - progress event bus: progress_manager and                            *)
(*     bank_statement_service.process_bank_statement                       *)
(*     (specification SpecProgress).                                       *)
(*                                                                         *)
(* A JSON object (python dict) is a TLA+ record whose DOMAIN is the set of *)
(* keys present.  A category string is the sequence of its '.'-separated   *)
(* segments: 'expense.others' is <<"expense", "others">>, a string without *)
(* '.' is a sequence of length one.                                        *)
(***************************************************************************)
EXTENDS Integers, Sequences, FiniteSets, TLC

VARIABLES
    \* ---- chunk scheduler (gpt_service.py) ----
    pc,            \* position of the caller of the two chunked stages
    tables,        \* keys of the tables dict, in dict order ("Table n" is n)
    xchunks,       \* extract_transactions: chunks, list of (chunk_tables, chunk_num)
    xw,            \* extract_transactions: one process_chunk_async coroutine per chunk
    xsent,         \* per extraction chunk, the inputs sent to the oracle so far
    xorder,        \* extraction chunk numbers in the order the coroutines completed
    xret,          \* what extract_transactions returned or raised
    transactions,  \* the transaction dicts handed to categorize_transactions
    cin,           \* value of the transactions argument when categorize_transactions was called
    cchunks,       \* categorize_transactions: chunks, list of (chunk, chunk_num)
    cw,            \* one process_categorization_chunk_async coroutine per chunk
    csent,         \* per categorization chunk, the inputs sent to the oracle so far
    corder,        \* categorization chunk numbers in completion order
    nodot,         \* per categorization chunk: every answer received so far held
                   \* a category without '.'
    cret,          \* what categorize_transactions returned or raised
    has_data,      \* some table of the dict has rows
    aretry,        \* analyze_table_structure: retry_count
    actx,          \* what analyze_table_structure returned or raised
    \* ---- task state store (celery_tasks.py, routers/statements.py) ----
    issued,        \* the task ids process_pdf_analysis has generated
    run,           \* per task id, the position of its Celery task and request.retries
    store,         \* per task id, the entry of the Valkey store
    valkey_up,     \* get_valkey_client can connect to the store
    polled,        \* the task id last polled through check_bs_status and the answer
    \* ---- progress event bus (progress_manager.py, bank_statement_service.py) ----
    listeners,     \* progress_manager.listeners: per task id, its queue
    progress_data, \* progress_manager.progress_data: per task id, the last snapshot
    ppc,           \* per task id, the position of bank_statement_service.process_bank_statement
    published,     \* per task id, the events put on its queue so far
    subs,          \* per subscriber, the state of its progress_manager.listen generator
    \* ---- aggregation (analysis.py) ----
    response_shape, \* the shape of the argument of generate_transaction_breakdown
    response_data, \* the transaction list the argument holds
    monthly_breakdown, \* the monthly breakdown it returned
    median_summary, \* the median summary it returned
    apc,           \* position of the caller of generate_transaction_breakdown
    \* ---- document storage (aws_service.py) ----
    files,         \* per task id, the file object handed to extract_tables_from_pdf
    bucket,        \* per S3 key, the document stored under it
    epc,           \* per task id, the position of extract_tables_from_pdf
    job_document   \* per task id, the document its Textract job has read

chunkVars == <<pc, tables, xchunks, xw, xsent, xorder, xret, transactions, cin,
               cchunks, cw, csent, corder, nodot, cret, has_data, aretry, actx>>

\* the variables of analyze_table_structure
analysisVars == <<has_data, aretry, actx>>

taskVars == <<issued, run, store, valkey_up, polled>>

progVars == <<listeners, progress_data, ppc, published, subs>>

aggVars == <<response_shape, response_data, monthly_breakdown, median_summary, apc>>

s3Vars == <<files, bucket, epc, job_document>>

vars == <<chunkVars, taskVars, progVars, aggVars, s3Vars>>

-----------------------------------------------------------------------------
(* Bounds of the model *)

MaxTables == 5      \* at most this many tables in the dict
MaxRows == 2        \* an extraction answer holds at most this many transactions
MaxTx == 81         \* largest list handed directly to categorize_transactions
MaxTasks == 2       \* number of task ids
MaxSubs == 2        \* number of subscribers of the progress bus
MaxBusTasks == 1    \* number of task ids handed to the progress bus
MaxInput == 4       \* longest transaction list handed to the aggregation
MaxDictInput == 1   \* longest transaction list handed over inside a dict

-----------------------------------------------------------------------------
(* Program constants *)

max_retries == 3
ExtractChunkSize == 2
CategorizeChunkSize == 40

Min(a, b) == IF a < b THEN a ELSE b

\* required_fields of process_chunk_async
RequiredFields == {"date", "description", "debit", "credit", "balance"}

\* required_fields of process_categorization_chunk_async
RequiredFieldsCategorized == RequiredFields \cup {"category"}

valid_types == {"income", "expense", "transfer"}

DefaultCategory == <<"expense", "others">>

\* The closed list of categories of the categorization prompt
PromptCategories ==
    { <<"income", s>> : s \in {"salary", "interest", "business", "refund", "others"} }
    \cup { <<"expense", s>> : s \in {"food", "rent", "utilities", "shopping", "travel",
                                     "entertainment", "healthcare", "insurance",
                                     "loan_emi", "others"} }
    \cup { <<"transfer", s>> : s \in {"self_transfer", "external_transfer"} }

-----------------------------------------------------------------------------
(* Python helpers *)

\* range(0, n, step) as the sequence of its values
RECURSIVE RangeFrom(_, _, _)
RangeFrom(i, n, step) ==
    IF i >= n THEN <<>> ELSE <<i>> \o RangeFrom(i + step, n, step)

\* mutant: the slice loses its last element
SliceShort(s, i, j) == SubSeq(s, i + 1, Min(j - 1, Len(s)))

\* s[i:j] for 0 <= i <= j, clipped at len(s)
Slice(s, i, j) == SubSeq(s, i + 1, Min(j, Len(s)))

\* sorted(keys, key=int(x.split()[1])): ascending by table number (insertion sort)
RECURSIVE InsertSorted(_, _)
InsertSorted(x, s) ==
    IF s = <<>> THEN <<x>>
    ELSE IF x < Head(s) THEN <<x>> \o s
    ELSE <<Head(s)>> \o InsertSorted(x, Tail(s))

RECURSIVE SortNumeric(_)
SortNumeric(s) ==
    IF s = <<>> THEN <<>> ELSE InsertSorted(Head(s), SortNumeric(Tail(s)))

\* list.extend over a list of lists, in list order
RECURSIVE Extend(_)
Extend(lists) ==
    IF lists = <<>> THEN <<>> ELSE Head(lists) \o Extend(Tail(lists))

\* d[key] = value on a dict
SetKey(d, key, value) == (key :> value) @@ d

\* A transaction dict holding the five extracted fields; id stands for the
\* content of the statement row it was read from
Tx(id) == [date |-> id, description |-> id, debit |-> id, credit |-> id, balance |-> id]


-----------------------------------------------------------------------------
(* The oracle (openai_client.chat.completions.create followed by json.loads) *)

\* One answer of the oracle: the call raises, or the content is not JSON, or
\* it is a JSON value of the given shape
Answer(raises, valid_json, type, has_transactions, is_list, items) ==
    [raises |-> raises, valid_json |-> valid_json, type |-> type,
     has_transactions |-> has_transactions, is_list |-> is_list, items |-> items]

ApiError == Answer(TRUE, FALSE, "other", FALSE, FALSE, <<>>)
BadJson == Answer(FALSE, FALSE, "other", FALSE, FALSE, <<>>)
DictWithoutTransactions == Answer(FALSE, TRUE, "dict", FALSE, FALSE, <<>>)
\* {"transactions": {}}: the value under 'transactions' is an empty dict
TransactionsNotList == Answer(FALSE, TRUE, "dict", TRUE, FALSE, <<>>)
DictAnswer(items) == Answer(FALSE, TRUE, "dict", TRUE, TRUE, items)
ListAnswer(items) == Answer(FALSE, TRUE, "list", FALSE, TRUE, items)

\* n transactions read from the tables of chunk chunk_num, in the order the
\* oracle lists them
ExtractedItems(chunk_num, n) == [j \in 1..n |-> Tx(chunk_num * 10 + (n - j + 1))]

\* a dict without the key 'balance'
WithoutBalance(id) == [date |-> id, description |-> id, debit |-> id, credit |-> id]

\* The answers the oracle may give to the extraction prompt of a chunk
ExtractionAnswers(chunk_num) ==
    {ApiError, BadJson, DictWithoutTransactions, TransactionsNotList}
    \cup {DictAnswer(<<Tx(chunk_num * 10 + 1), WithoutBalance(chunk_num * 10 + 2)>>)}
    \cup {ListAnswer(<<WithoutBalance(chunk_num * 10 + 1)>>)}
    \cup {DictAnswer(ExtractedItems(chunk_num, n)) : n \in 0..MaxRows}
    \cup {ListAnswer(ExtractedItems(chunk_num, n)) : n \in 0..MaxRows}

\* all(field in tx for field in required_fields) for every tx of the list
AllHaveFields(items, required_fields) ==
    \A i \in 1..Len(items) : required_fields \subseteq DOMAIN items[i]

\* process_chunk_async, the body of the try block: the list returned, or the
\* exception class caught
ExtractionOutcome(answer) ==
    IF answer.raises THEN [ok |-> FALSE, error |-> "Exception", value |-> <<>>]
    ELSE IF ~answer.valid_json THEN [ok |-> FALSE, error |-> "JSONDecodeError", value |-> <<>>]
    ELSE IF answer.type = "dict" /\ answer.has_transactions THEN
        IF answer.is_list THEN
            IF AllHaveFields(answer.items, RequiredFields)
            THEN [ok |-> TRUE, error |-> "", value |-> answer.items]
            ELSE [ok |-> FALSE, error |-> "ValueError", value |-> <<>>]
        ELSE [ok |-> FALSE, error |-> "ValueError", value |-> <<>>]
    ELSE IF answer.type = "list" THEN
        IF AllHaveFields(answer.items, RequiredFields)
        THEN [ok |-> TRUE, error |-> "", value |-> answer.items]
        ELSE [ok |-> FALSE, error |-> "ValueError", value |-> <<>>]
    ELSE [ok |-> FALSE, error |-> "ValueError", value |-> <<>>]

-----------------------------------------------------------------------------
(* The retry loop shared by both chunk workers *)

\* mutant: one attempt too many
RetryAllowedInclusive(retry_count) == retry_count <= max_retries

\* `retry_count < max_retries`: the loop condition and the test after the
\* except clauses
RetryAllowed(retry_count) == retry_count < max_retries

\* a coroutine that has not yet sent anything
\* (is_list: the value returned is a python list)
NewWorker ==
    [retry_count |-> 0, done |-> FALSE, fallback |-> FALSE, result |-> <<>>,
     is_list |-> TRUE]

\* return of the accepted list
Returned(w, value) == [w EXCEPT !.done = TRUE, !.result = value]

\* retry_count += 1, then retry or return the fallback value
Failed(w, fallback_value) ==
    IF RetryAllowed(w.retry_count + 1)
    THEN [w EXCEPT !.retry_count = w.retry_count + 1]
    ELSE [w EXCEPT !.retry_count = w.retry_count + 1, !.done = TRUE,
                   !.fallback = TRUE, !.result = fallback_value]

\* mutant: the results in the order the coroutines completed
GatherAsCompleted(workers, completion_order) ==
    [i \in 1..Len(workers) |-> workers[completion_order[i]].result]

\* asyncio.gather: the results in the order the coroutines were passed,
\* whatever the order in which they completed
GatherResults(workers, completion_order) ==
    [i \in 1..Len(workers) |-> workers[i].result]

-----------------------------------------------------------------------------
(* analyze_table_structure *)

NoReturn == [kind |-> "none", value |-> <<>>]

\* required_fields of analyze_table_structure
RequiredFieldsAnalysis == {"available_header", "example_transactions", "column_types"}

\* the column roles of the analysis prompt
ColumnRoles == {"date_column", "description_column", "debit_column", "credit_column",
                "balance_column"}

\* an analysis result with every role mapped to a column index
FullContext ==
    [available_header |-> <<"Date", "Narration", "Debit", "Credit", "Balance">>,
     example_transactions |-> << <<"01/01", "ATM", "100", "", "900">> >>,
     column_types |-> [date_column |-> 0, description_column |-> 1, debit_column |-> 2,
                       credit_column |-> 3, balance_column |-> 4]]

\* the oracle did not find a balance column
ContextWithoutBalanceRole ==
    [FullContext EXCEPT !.column_types = [date_column |-> 0, description_column |-> 1,
                                          debit_column |-> 2, credit_column |-> 3]]

\* the oracle found no example row
ContextWithoutExamples == [FullContext EXCEPT !.example_transactions = <<>>]

\* the JSON object lacks the key column_types
ContextWithoutColumnTypes ==
    [available_header |-> FullContext.available_header,
     example_transactions |-> FullContext.example_transactions]

\* The answers the oracle may give to the analysis prompt: the call raises,
\* the content is not JSON, or it is the JSON object in items
AnalysisAnswers ==
    {ApiError, BadJson}
    \cup {Answer(FALSE, TRUE, "dict", FALSE, FALSE, ctx) :
              ctx \in {FullContext, ContextWithoutBalanceRole, ContextWithoutExamples,
                       ContextWithoutColumnTypes}}

\* lines 87-127, the body of the try block: the result returned, or the
\* exception class caught
AnalysisOutcome(answer) ==
    IF answer.raises THEN [ok |-> FALSE, error |-> "Exception", value |-> <<>>]
    ELSE IF ~answer.valid_json THEN [ok |-> FALSE, error |-> "JSONDecodeError", value |-> <<>>]
    ELSE IF ~(RequiredFieldsAnalysis \subseteq DOMAIN answer.items)
        THEN [ok |-> FALSE, error |-> "ValueError", value |-> <<>>]
    ELSE IF answer.items.example_transactions = <<>>
        THEN [ok |-> FALSE, error |-> "ValueError", value |-> <<>>]
    ELSE [ok |-> TRUE, error |-> "", value |-> answer.items]

\* lines 62-73: the exception raised before any oracle call, "" if none
AnalysisPrecheck(table_keys, some_table_has_rows) ==
    IF table_keys = <<>> THEN "No tables found in the PDF"
    ELSE IF ~some_table_has_rows THEN "No data found in the extracted tables"
    ELSE ""

\* what the outer except clause raises
AnalysisError(message) ==
    [kind |-> "raise", value |-> <<"Failed to analyze table structure", message>>]

\* lines 60-84: the checks on the tables; the retry loop starts if they pass
AnalyzeStart ==
    /\ pc = "analyze_call"
    /\ LET message == AnalysisPrecheck(tables, has_data)
       IN  IF message # ""
           THEN /\ actx' = AnalysisError(message)
                /\ pc' = "raised"
           ELSE /\ actx' = actx
                /\ pc' = "analyze_loop"
    /\ aretry' = 0
    /\ UNCHANGED <<s3Vars, aggVars, taskVars, progVars, has_data, tables, xchunks, xw, xsent, xorder, xret,
                   transactions, cin, cchunks, cw, csent, corder, nodot, cret>>

\* lines 86-133, one iteration of the retry loop: the prompt built from all
\* tables is sent; an accepted result is returned to the caller, who passes it
\* to extract_transactions; after max_retries failures the function raises
AnalyzeCall(answer) ==
    /\ pc = "analyze_loop"
    /\ RetryAllowed(aretry)
    /\ LET outcome == AnalysisOutcome(answer)
       IN  IF outcome.ok
           THEN /\ actx' = [kind |-> "return", value |-> outcome.value]
                /\ aretry' = 0
                /\ pc' = "extract_call"
           ELSE IF RetryAllowed(aretry + 1)
           THEN /\ aretry' = aretry + 1
                /\ UNCHANGED <<actx, pc>>
           ELSE /\ actx' = AnalysisError("Failed to analyze table structure after maximum retries")
                /\ aretry' = aretry + 1
                /\ pc' = "raised"
    /\ UNCHANGED <<s3Vars, aggVars, taskVars, progVars, has_data, tables, xchunks, xw, xsent, xorder, xret,
                   transactions, cin, cchunks, cw, csent, corder, nodot, cret>>

AnalyzeOracleCall == \E answer \in AnalysisAnswers : AnalyzeCall(answer)

-----------------------------------------------------------------------------
(* extract_transactions *)

\* the chunks list: (table_keys[i:i+chunk_size], i // chunk_size + 1)
ExtractChunks(table_keys) ==
    LET starts == RangeFrom(0, Len(table_keys), ExtractChunkSize)
    IN  [m \in 1..Len(starts) |->
            [chunk_tables |-> Slice(table_keys, starts[m], starts[m] + ExtractChunkSize),
             chunk_num |-> starts[m] \div ExtractChunkSize + 1]]

\* `return []` of a chunk that failed on every attempt
ExtractFallback(chunk_tables) == <<>>

\* lines 244-279: sort the keys, build the chunks, start one coroutine per chunk
ExtractStart ==
    /\ pc = "extract_call"
    /\ xchunks' = ExtractChunks(SortNumeric(tables))
    /\ xw' = [m \in 1..Len(xchunks') |-> NewWorker]
    /\ xsent' = [m \in 1..Len(xchunks') |-> <<>>]
    /\ xorder' = <<>>
    /\ pc' = "extract_gather"
    /\ UNCHANGED <<s3Vars, aggVars, taskVars, progVars, analysisVars, tables, xret, transactions, cin, cchunks, cw, csent, corder, nodot, cret>>

\* process_chunk_async, one iteration of the retry loop of chunk c: the prompt
\* built from the chunk's tables is sent and the answer is handled
ExtractCall(c, answer) ==
    /\ pc = "extract_gather"
    /\ c \in 1..Len(xw)
    /\ ~xw[c].done
    /\ RetryAllowed(xw[c].retry_count)
    /\ xsent' = [xsent EXCEPT ![c] = Append(@, xchunks[c].chunk_tables)]
    /\ LET outcome == ExtractionOutcome(answer)
           w == IF outcome.ok THEN Returned(xw[c], outcome.value)
                ELSE Failed(xw[c], ExtractFallback(xchunks[c].chunk_tables))
       IN  /\ xw' = [xw EXCEPT ![c] = w]
           /\ xorder' = IF w.done THEN Append(xorder, c) ELSE xorder
    /\ UNCHANGED <<s3Vars, aggVars, taskVars, progVars, analysisVars, pc, tables, xchunks, xret, transactions, cin, cchunks, cw, csent,
                   corder, nodot, cret>>

\* mutant: raise as soon as one chunk has failed
ExtractFinishStrict ==
    /\ pc = "extract_gather"
    /\ \A c \in 1..Len(xw) : xw[c].done
    /\ LET final_transactions == Extend(GatherResults(xw, xorder))
       IN  IF final_transactions = <<>> \/ \E c \in 1..Len(xw) : xw[c].fallback
           THEN /\ xret' = [kind |-> "raise", value |-> <<>>]
                /\ pc' = "raised"
           ELSE /\ xret' = [kind |-> "return", value |-> final_transactions]
                /\ pc' = "extract_returned"
    /\ UNCHANGED <<s3Vars, aggVars, taskVars, progVars, analysisVars, tables, xchunks, xw, xsent, xorder, transactions, cin, cchunks, cw,
                   csent, corder, nodot, cret>>

\* lines 281-308: once every coroutine has completed, extend final_transactions
\* with every chunk's list in chunk order; raise if it is empty, else return it
ExtractFinish ==
    /\ pc = "extract_gather"
    /\ \A c \in 1..Len(xw) : xw[c].done
    /\ LET final_transactions == Extend(GatherResults(xw, xorder))
       IN  IF final_transactions = <<>>
           THEN /\ xret' = [kind |-> "raise", value |-> <<>>]
                /\ pc' = "raised"
           ELSE /\ xret' = [kind |-> "return", value |-> final_transactions]
                /\ pc' = "extract_returned"
    /\ UNCHANGED <<s3Vars, aggVars, taskVars, progVars, analysisVars, tables, xchunks, xw, xsent, xorder, transactions, cin, cchunks, cw,
                   csent, corder, nodot, cret>>

-----------------------------------------------------------------------------
(* categorize_transactions *)

\* The dicts a chunk refers to: a chunk is a list of references to elements
\* of transactions (a slice shares the dict objects with the list it is cut from)
ChunkDicts(txs, chunk) == [j \in 1..Len(chunk) |-> txs[chunk[j]]]

\* every record of the list gets the category
WithCategory(items, category) ==
    [j \in 1..Len(items) |-> SetKey(items[j], "category", category)]

\* the record without its category key
WithoutCategory(tx) == [k \in DOMAIN tx \ {"category"} |-> tx[k]]

\* The answers the oracle may give to the categorization prompt of a chunk
\* whose dicts are items (never empty)
CategorizationAnswers(items) ==
    LET n == Len(items)
        food == WithCategory(items, <<"expense", "food">>)
        first(category) == [food EXCEPT ![1] = SetKey(@, "category", category)]
    IN  {ApiError, BadJson, DictWithoutTransactions, TransactionsNotList}
        \cup {DictAnswer([food EXCEPT ![n] = WithoutCategory(@)])}
        \cup {DictAnswer(first(<<"income">>))}
        \cup {DictAnswer([food EXCEPT ![n] = SetKey(@, "category", <<"others">>)])}
        \cup {DictAnswer(first(<<"expense", "food", "x">>))}
        \cup {DictAnswer(first(<<"misc", "other">>))}
        \cup {DictAnswer(food)}
        \cup {DictAnswer(first(<<"expense", "gambling">>))}
        \cup {DictAnswer(SubSeq(food, 1, n - 1))}

\* `'.' not in category`
HasNoDot(category) == Len(category) < 2

\* mutant: only the name before the first '.' is checked
CategoryAcceptedPrefixOnly(category) == category[1] \in valid_types

\* lines 361-369: the category of one record passes the checks; split('.')
\* must give exactly the two names unpacked
CategoryAccepted(category) ==
    /\ ~HasNoDot(category)
    /\ Len(category) = 2
    /\ category[1] \in valid_types

\* lines 355-369: every record has the required fields and an accepted category
RecordsAccepted(items) ==
    \A i \in 1..Len(items) :
        /\ RequiredFieldsCategorized \subseteq DOMAIN items[i]
        /\ CategoryAccepted(items[i].category)

\* process_categorization_chunk_async, the body of the try block: the value
\* under 'transactions' is iterated and returned without a test of its type,
\* so an empty dict passes the loop over its records and is returned as it is
CategorizationOutcome(answer) ==
    IF answer.raises
        THEN [ok |-> FALSE, error |-> "Exception", value |-> <<>>, is_list |-> TRUE]
    ELSE IF ~answer.valid_json
        THEN [ok |-> FALSE, error |-> "JSONDecodeError", value |-> <<>>, is_list |-> TRUE]
    ELSE IF ~(answer.type = "dict" /\ answer.has_transactions)
        THEN [ok |-> FALSE, error |-> "ValueError", value |-> <<>>, is_list |-> TRUE]
    ELSE IF RecordsAccepted(answer.items)
        THEN [ok |-> TRUE, error |-> "", value |-> answer.items,
              is_list |-> answer.is_list]
    ELSE [ok |-> FALSE, error |-> "ValueError", value |-> <<>>, is_list |-> TRUE]

\* the answer holds a record whose category has no '.'
AnswerHasNoDot(answer) ==
    /\ ~answer.raises
    /\ answer.valid_json
    /\ \E i \in 1..Len(answer.items) :
          /\ "category" \in DOMAIN answer.items[i]
          /\ HasNoDot(answer.items[i].category)

\* the chunks list: (transactions[i:i+chunk_size], i // chunk_size + 1), each
\* chunk as the positions of its dicts in transactions
CategorizeChunks(n) ==
    LET starts == RangeFrom(0, n, CategorizeChunkSize)
        positions == [j \in 1..n |-> j]
    IN  [m \in 1..Len(starts) |->
            [chunk |-> Slice(positions, starts[m], starts[m] + CategorizeChunkSize),
             chunk_num |-> starts[m] \div CategorizeChunkSize + 1]]

\* mutant: the failed chunk keeps its dicts uncategorized
CategorizeFallbackNoDefault(txs, chunk) == txs

\* lines 393-395: transaction['category'] = 'expense.others' on every dict of
\* the chunk; gives the transactions list after the assignment
CategorizeFallback(txs, chunk) ==
    [j \in 1..Len(txs) |->
        IF \E k \in 1..Len(chunk) : chunk[k] = j
        THEN SetKey(txs[j], "category", DefaultCategory)
        ELSE txs[j]]

\* the caller passes the list extract_transactions returned
CategorizeCall ==
    /\ pc = "extract_returned"
    /\ transactions' = xret.value
    /\ pc' = "categorize_call"
    /\ xchunks' = <<>>
    /\ xw' = <<>>
    /\ xsent' = <<>>
    /\ xorder' = <<>>
    /\ UNCHANGED <<s3Vars, aggVars, taskVars, progVars, analysisVars, tables, xret, cin, cchunks, cw, csent, corder, nodot, cret>>

\* lines 408-440: build the chunks and start one coroutine per chunk
CategorizeStart ==
    /\ pc = "categorize_call"
    /\ cin' = transactions
    /\ cchunks' = CategorizeChunks(Len(transactions))
    /\ cw' = [m \in 1..Len(cchunks') |-> NewWorker]
    /\ csent' = [m \in 1..Len(cchunks') |-> <<>>]
    /\ nodot' = [m \in 1..Len(cchunks') |-> TRUE]
    /\ corder' = <<>>
    /\ pc' = "categorize_gather"
    /\ UNCHANGED <<s3Vars, aggVars, taskVars, progVars, analysisVars, tables, xchunks, xw, xsent, xorder, xret, transactions, cret>>

\* process_categorization_chunk_async, one iteration of the retry loop of
\* chunk c: the prompt built from the chunk's dicts is sent and the answer is
\* handled; the fallback writes the default category into the chunk's dicts
CategorizeAttempt(c, answer) ==
    /\ ~cw[c].done
    /\ RetryAllowed(cw[c].retry_count)
    /\ csent' = [csent EXCEPT ![c] = Append(@, ChunkDicts(transactions, cchunks[c].chunk))]
    /\ nodot' = [nodot EXCEPT ![c] = @ /\ AnswerHasNoDot(answer)]
    /\ LET outcome == CategorizationOutcome(answer)
           defaulted == CategorizeFallback(transactions, cchunks[c].chunk)
           w == IF outcome.ok
                THEN [Returned(cw[c], outcome.value) EXCEPT !.is_list = outcome.is_list]
                ELSE Failed(cw[c], ChunkDicts(defaulted, cchunks[c].chunk))
       IN  /\ cw' = [cw EXCEPT ![c] = w]
           /\ transactions' = IF w.fallback THEN defaulted ELSE transactions
           /\ corder' = IF w.done THEN Append(corder, c) ELSE corder

CategorizeOracleCall(c) ==
    /\ pc = "categorize_gather"
    /\ c \in 1..Len(cw)
    /\ \E answer \in CategorizationAnswers(ChunkDicts(transactions, cchunks[c].chunk)) :
            CategorizeAttempt(c, answer)
    /\ UNCHANGED <<s3Vars, aggVars, taskVars, progVars, analysisVars, pc, tables, xchunks, xw, xsent, xorder, xret, cin, cchunks, cret>>

\* mutant: the stage returns as soon as one coroutine has completed
CategorizeFinishEarly ==
    /\ pc = "categorize_gather"
    /\ \E c \in 1..Len(cw) : cw[c].done
    /\ LET categorized_transactions == Extend(GatherResults(cw, corder))
       IN  IF categorized_transactions = <<>>
           THEN /\ cret' = [kind |-> "raise", value |-> <<>>]
                /\ pc' = "raised"
           ELSE /\ cret' = [kind |-> "return", value |-> categorized_transactions]
                /\ pc' = "done"
    /\ UNCHANGED <<s3Vars, aggVars, taskVars, progVars, analysisVars, tables, xchunks, xw, xsent, xorder, xret, transactions, cin, cchunks,
                   cw, csent, corder, nodot>>

\* lines 442-475: once every coroutine has completed, extend
\* categorized_transactions with every chunk's list in chunk order; raise if it
\* is empty, else return it.  A result that is not a list is skipped; it is
\* empty, so that it adds nothing to the merged list either way
CategorizeFinish ==
    /\ pc = "categorize_gather"
    /\ \A c \in 1..Len(cw) : cw[c].done
    /\ LET categorized_transactions == Extend(GatherResults(cw, corder))
       IN  IF categorized_transactions = <<>>
           THEN /\ cret' = [kind |-> "raise", value |-> <<>>]
                /\ pc' = "raised"
           ELSE /\ cret' = [kind |-> "return", value |-> categorized_transactions]
                /\ pc' = "done"
    /\ UNCHANGED <<s3Vars, aggVars, taskVars, progVars, analysisVars, tables, xchunks, xw, xsent, xorder, xret, transactions, cin, cchunks,
                   cw, csent, corder, nodot>>

-----------------------------------------------------------------------------
(* Task state store: routers/statements.py and celery_tasks.py *)

\* the task ids uuid4 may give
TaskIds == 1..MaxTasks

\* max_retries of the Celery task decorator
TaskMaxRetries == 3

InProgressExpiry == 3600
TerminalExpiry == 900

\* the key is not in the store
NoEntry == [status |-> "absent", result |-> [message |-> ""], ex |-> 0]

\* the stages of the Celery task in order, with the message written before each
TaskStages == <<"tables", "analysis", "extract", "categorize", "breakdown">>

StageMessage(stage) ==
    CASE stage = "tables" -> "Extracting tables from PDF..."
      [] stage = "analysis" -> "Analyzing table structure..."
      [] stage = "extract" -> "Extracting transactions..."
      [] stage = "categorize" -> "Categorizing transactions..."
      [] stage = "breakdown" -> "Generating analysis report..."

\* the position after a stage that returned
AfterStage(stage) ==
    CASE stage = "tables" -> "analysis"
      [] stage = "analysis" -> "extract"
      [] stage = "extract" -> "categorize"
      [] stage = "categorize" -> "breakdown"
      [] stage = "breakdown" -> "write_done"

\* generate_transaction_breakdown catches every exception; the other stages
\* may raise
MayRaise(stage) == stage # "breakdown"

\* str(e) of the exception the outer except clause of a stage raises
Wrapped(prefix, message) == <<prefix, message>>

\* str(e) of the exceptions a stage may raise
StageErrors(stage) ==
    CASE stage = "tables" -> {<<"Failed to extract tables from PDF">>}
      [] stage = "analysis" ->
            {Wrapped("Failed to analyze table structure", AnalysisPrecheck(<<>>, FALSE)),
             Wrapped("Failed to analyze table structure", AnalysisPrecheck(<<1>>, FALSE)),
             Wrapped("Failed to analyze table structure",
                     "Failed to analyze table structure after maximum retries")}
      [] stage = "extract" ->
            {Wrapped("Failed to extract transactions",
                     "No transactions were successfully extracted")}
      [] stage = "categorize" ->
            {Wrapped("Failed to categorize transactions",
                     "No transactions were successfully categorized")}
      [] stage = "breakdown" -> {}

\* the value of the local variable e outside the except clause
NoError == <<>>

\* mutant: every status is written under the first task id
set_task_status_one_key(st, task_id, status, result, expiry_seconds) ==
    IF valkey_up
    THEN [st EXCEPT ![1] = [status |-> status, result |-> result, ex |-> expiry_seconds]]
    ELSE st

\* mutant: the expiry argument is ignored and the default of 900 s is used
set_task_status_default_expiry(st, task_id, status, result, expiry_seconds) ==
    IF valkey_up
    THEN [st EXCEPT ![task_id] = [status |-> status, result |-> result, ex |-> TerminalExpiry]]
    ELSE st

\* set_task_status: the entry is replaced by {status, result} with the expiry;
\* if get_valkey_client raises (no connection) the exception is caught and
\* printed and the entry is unchanged
set_task_status(st, task_id, status, result, expiry_seconds) ==
    IF valkey_up
    THEN [st EXCEPT ![task_id] = [status |-> status, result |-> result, ex |-> expiry_seconds]]
    ELSE st

\* process_pdf_analysis: a fresh uuid4 is generated and the task is sent to the
\* broker; if delay raises the caller gets an error and no task exists
Submit(t, sent) ==
    /\ t \notin issued
    /\ issued' = issued \cup {t}
    /\ run' = [run EXCEPT ![t] = [pc |-> IF sent THEN "queued" ELSE "rejected", retries |-> 0, error |-> NoError]]
    /\ UNCHANGED <<s3Vars, aggVars, chunkVars, progVars, store, valkey_up, polled>>

\* the worker takes the task: line 89
TaskBegin(t) ==
    /\ run[t].pc = "queued"
    /\ store' = set_task_status(store, t, "in_progress", [message |-> "Starting analysis..."],
                                InProgressExpiry)
    /\ run' = [run EXCEPT ![t].pc = "tables"]
    /\ UNCHANGED <<s3Vars, aggVars, chunkVars, progVars, issued, valkey_up, polled>>

\* mutant: the exception of a stage is swallowed and the next stage runs
TaskStageContinue(t, raises) ==
    /\ run[t].pc \in {TaskStages[i] : i \in 1..Len(TaskStages)}
    /\ raises => MayRaise(run[t].pc)
    /\ store' = set_task_status(store, t, "in_progress", [message |-> StageMessage(run[t].pc)],
                                InProgressExpiry)
    /\ \E e \in IF raises THEN StageErrors(run[t].pc) ELSE {NoError} :
          run' = [run EXCEPT ![t].pc = AfterStage(run[t].pc), ![t].error = e]
    /\ UNCHANGED <<s3Vars, aggVars, chunkVars, progVars, issued, valkey_up, polled>>

\* lines 95-113: the status message of a stage is written, then the stage runs
\* and returns, or raises the exception e, which the except clause catches
TaskStage(t, raises) ==
    /\ run[t].pc \in {TaskStages[i] : i \in 1..Len(TaskStages)}
    /\ raises => MayRaise(run[t].pc)
    /\ store' = set_task_status(store, t, "in_progress", [message |-> StageMessage(run[t].pc)],
                                InProgressExpiry)
    /\ \E e \in IF raises THEN StageErrors(run[t].pc) ELSE {NoError} :
          run' = [run EXCEPT ![t].pc = IF raises THEN "write_failed" ELSE AfterStage(run[t].pc),
                             ![t].error = e]
    /\ UNCHANGED <<s3Vars, aggVars, chunkVars, progVars, issued, valkey_up, polled>>

\* what generate_transaction_breakdown returns
transaction_analysis ==
    [monthly_breakdown |-> "monthly_breakdown", median_summary |-> "median_summary"]

\* lines 115-120
TaskDone(t) ==
    /\ run[t].pc = "write_done"
    /\ store' = set_task_status(store, t, "done",
                                [message |-> "Successfully analyzed",
                                 analysis |-> transaction_analysis],
                                TerminalExpiry)
    /\ run' = [run EXCEPT ![t].pc = "finished"]
    /\ UNCHANGED <<s3Vars, aggVars, chunkVars, progVars, issued, valkey_up, polled>>

\* mutant: self.retry sends the task again once more than max_retries allows
TaskFailedRetryInclusive(t) ==
    /\ run[t].pc = "write_failed"
    /\ store' = set_task_status(store, t, "failed", [error |-> run[t].error], TerminalExpiry)
    /\ run' = [run EXCEPT ![t] =
                  IF run[t].retries <= TaskMaxRetries
                  THEN [pc |-> "queued", retries |-> run[t].retries + 1, error |-> NoError]
                  ELSE [pc |-> "gave_up", retries |-> run[t].retries, error |-> NoError]]
    /\ UNCHANGED <<s3Vars, aggVars, chunkVars, progVars, issued, valkey_up, polled>>

\* lines 122-128: the failure is written, then self.retry sends the same task
\* (same arguments, same task_id) again unless request.retries has reached
\* max_retries
TaskFailed(t) ==
    /\ run[t].pc = "write_failed"
    /\ store' = set_task_status(store, t, "failed", [error |-> run[t].error], TerminalExpiry)
    /\ run' = [run EXCEPT ![t] =
                  IF run[t].retries < TaskMaxRetries
                  THEN [pc |-> "queued", retries |-> run[t].retries + 1, error |-> NoError]
                  ELSE [pc |-> "gave_up", retries |-> run[t].retries, error |-> NoError]]
    /\ UNCHANGED <<s3Vars, aggVars, chunkVars, progVars, issued, valkey_up, polled>>

\* the answers of check_bs_status
ErrorResponse(message) == [status |-> "error", message |-> message, data |-> "None"]

NotFound == ErrorResponse("Invalid task ID")

\* nothing has been polled
NoPoll == [task |-> 0, answer |-> ErrorResponse("")]

\* client.get(task_id) without await: the coroutine object of the call, which
\* would give the stored string (None for a missing key) if it were awaited
client_get(st, task_id) == [type |-> "coroutine", value |-> st[task_id]]

\* `not task_data`: an object is false if it is None or empty; a coroutine
\* object is true
IsFalsy(task_data) ==
    IF task_data.type = "coroutine" THEN FALSE ELSE task_data.value = NoEntry

\* json.loads accepts str, bytes and bytearray and raises TypeError for any
\* other object
JsonLoadsRaises(task_data) == task_data.type \notin {"str", "bytes", "bytearray"}

\* check_bs_status for a well-formed task id: every exception is caught and
\* answered with an error
check_bs_status(st, task_id) ==
    IF ~valkey_up THEN ErrorResponse("Failed to retrieve task status")
    ELSE LET task_data == client_get(st, task_id)
         IN  IF IsFalsy(task_data) THEN NotFound
             ELSE IF JsonLoadsRaises(task_data)
                  THEN ErrorResponse("Failed to retrieve task status")
             ELSE [status |-> task_data.value.status, result |-> task_data.value.result]

\* a client polls a task id (issued or not)
Poll(t) ==
    /\ polled' = [task |-> t, answer |-> check_bs_status(store, t)]
    /\ UNCHANGED <<s3Vars, aggVars, chunkVars, progVars, issued, run, store, valkey_up>>

\* the expiry set with the entry elapses and Valkey deletes the key
Expire(t) ==
    /\ store[t] # NoEntry
    /\ store' = [store EXCEPT ![t] = NoEntry]
    /\ UNCHANGED <<s3Vars, aggVars, chunkVars, progVars, issued, run, valkey_up, polled>>

TaskIdle ==
    /\ polled = NoPoll
    /\ valkey_up = TRUE
    /\ issued = {}
    /\ run = [t \in TaskIds |-> [pc |-> "none", retries |-> 0, error |-> NoError]]
    /\ store = [t \in TaskIds |-> NoEntry]

-----------------------------------------------------------------------------
(* Progress event bus: progress_manager.py and bank_statement_service.py *)

Subscribers == 1..MaxSubs

BusTaskIds == 1..MaxBusTasks

\* the key is not in listeners
NoQueue == [exists |-> FALSE, items |-> <<>>]

\* the key is not in progress_data
NoSnapshot == [exists |-> FALSE, progress |-> 0, message |-> "", data |-> "None"]

Payload(progress, message, data) == [progress |-> progress, message |-> message, data |-> data]

\* a snapshot that loses the data of the event
SnapshotWithoutData(payload) ==
    [exists |-> TRUE, progress |-> payload.progress, message |-> payload.message,
     data |-> "None"]

Snapshot(payload) ==
    [exists |-> TRUE, progress |-> payload.progress, message |-> payload.message,
     data |-> payload.data]

\* the stages of the pipeline in order
PipelineStages == <<"textract", "analyze", "extract", "categorize", "summary">>

\* the stage events with the progress values of two stages exchanged
StageEventUnordered(stage) ==
    CASE stage = "textract" -> Payload(60, "Completed Textract.", "tables_extracted")
      [] stage = "analyze" -> Payload(40, "Analyzed table structure", "headers")
      [] stage = "extract" -> Payload(80, "Extracted transactions", "transactions_count")
      [] stage = "categorize" -> Payload(90, "Categorization completed", "categorized_count")
      [] stage = "summary" -> Payload(100, "Completed all processing", "final_data")

\* the event published when a stage has returned
StageEvent(stage) ==
    CASE stage = "textract" -> Payload(40, "Completed Textract.", "tables_extracted")
      [] stage = "analyze" -> Payload(60, "Analyzed table structure", "headers")
      [] stage = "extract" -> Payload(80, "Extracted transactions", "transactions_count")
      [] stage = "categorize" -> Payload(90, "Categorization completed", "categorized_count")
      [] stage = "summary" -> Payload(100, "Completed all processing", "final_data")

AfterPipelineStage(stage) ==
    CASE stage = "textract" -> "analyze"
      [] stage = "analyze" -> "extract"
      [] stage = "extract" -> "categorize"
      [] stage = "categorize" -> "summary"
      [] stage = "summary" -> "returned"

\* the summaries catch every exception; the other stages may raise
PipelineMayRaise(stage) == stage # "summary"

\* init_task: listeners after the call
InitTaskListeners(ls, task_id) == [ls EXCEPT ![task_id] = [exists |-> TRUE, items |-> <<>>]]

\* asyncio.Queue() is built without maxsize: 0, the queue has no bound
QueueMaxSize == 0

\* update_progress without the call of init_task
UpdateListenersNoInit(ls, pd, task_id, payload) ==
    IF ls[task_id].exists
    THEN [ls EXCEPT ![task_id].items = Append(@, payload)]
    ELSE ls

\* update_progress: listeners after the call
UpdateListeners(ls, pd, task_id, payload) ==
    LET ls1 == IF ~pd[task_id].exists THEN InitTaskListeners(ls, task_id) ELSE ls
    IN  IF ls1[task_id].exists
        THEN [ls1 EXCEPT ![task_id].items = Append(@, payload)]
        ELSE ls1

\* update_progress: the event was put on a queue
WasPut(ls, pd, task_id) == ~pd[task_id].exists \/ ls[task_id].exists

\* update_progress(task_id, progress, message, data)
update_progress(task_id, payload) ==
    /\ listeners' = UpdateListeners(listeners, progress_data, task_id, payload)
    /\ progress_data' = [progress_data EXCEPT ![task_id] = Snapshot(payload)]
    /\ published' = IF WasPut(listeners, progress_data, task_id)
                    THEN [published EXCEPT ![task_id] = Append(@, payload)]
                    ELSE published

\* bank_statement_service.process_bank_statement, line 40
PipelineStart(t) ==
    /\ ppc[t] = "idle"
    /\ update_progress(t, Payload(10, "Started Textract processing...", "None"))
    /\ ppc' = [ppc EXCEPT ![t] = "textract"]
    /\ UNCHANGED <<s3Vars, aggVars, chunkVars, taskVars, subs>>

\* lines 42-72: a stage runs; if it raises the exception leaves the function,
\* else the stage's event is published
PipelineStage(t, raises) ==
    /\ ppc[t] \in {PipelineStages[i] : i \in 1..Len(PipelineStages)}
    /\ raises => PipelineMayRaise(ppc[t])
    /\ IF raises
       THEN /\ ppc' = [ppc EXCEPT ![t] = "raised"]
            /\ UNCHANGED <<listeners, progress_data, published>>
       ELSE /\ update_progress(t, StageEvent(ppc[t]))
            /\ ppc' = [ppc EXCEPT ![t] = AfterPipelineStage(ppc[t])]
    /\ UNCHANGED <<s3Vars, aggVars, chunkVars, taskVars, subs>>

\* the error event of listen for an unknown task id
TaskNotFound == Payload(0, "Task not found", "error")

\* listen, up to the first get: an unknown task id gives one error event
Listen(s, t) ==
    /\ subs[s].state = "idle"
    /\ subs' = [subs EXCEPT ![s] =
                   IF listeners[t].exists
                   THEN [state |-> "listening", task |-> t, received |-> <<>>]
                   ELSE [state |-> "closed", task |-> t, received |-> <<TaskNotFound>>]]
    /\ UNCHANGED <<s3Vars, aggVars, chunkVars, taskVars, listeners, progress_data, ppc, published>>

\* get_progress(task_id): the snapshot, NoSnapshot standing for None
get_progress(task_id) == progress_data[task_id]

\* a turn of the loop of listen that never leaves the loop
ReceiveNoBreak(s) ==
    /\ subs[s].state = "listening"
    /\ listeners[subs[s].task].items # <<>>
    /\ LET data == Head(listeners[subs[s].task].items)
       IN  /\ listeners' = [listeners EXCEPT ![subs[s].task].items = Tail(@)]
           /\ subs' = [subs EXCEPT ![s].received = Append(@, data)]
    /\ UNCHANGED <<s3Vars, aggVars, chunkVars, taskVars, progress_data, ppc, published>>

\* listen, one turn of the loop: get returns the head of the queue, the event
\* is yielded, and the loop ends after an event with progress >= 100
Receive(s) ==
    /\ subs[s].state = "listening"
    /\ listeners[subs[s].task].items # <<>>
    /\ LET data == Head(listeners[subs[s].task].items)
       IN  /\ listeners' = [listeners EXCEPT ![subs[s].task].items = Tail(@)]
           /\ subs' = [subs EXCEPT ![s].received = Append(@, data),
                                   ![s].state = IF data.progress >= 100 THEN "closed"
                                                ELSE "listening"]
    /\ UNCHANGED <<s3Vars, aggVars, chunkVars, taskVars, progress_data, ppc, published>>

ProgressIdle ==
    /\ listeners = [t \in BusTaskIds |-> NoQueue]
    /\ progress_data = [t \in BusTaskIds |-> NoSnapshot]
    /\ ppc = [t \in BusTaskIds |-> "idle"]
    /\ published = [t \in BusTaskIds |-> <<>>]
    /\ subs = [s \in Subscribers |-> [state |-> "idle", task |-> 0, received |-> <<>>]]

-----------------------------------------------------------------------------
(* Aggregation: analysis.py, prepare_transaction_dataframe and
   calculate_monthly_breakdown.  Amounts are in thousandths of the currency
   unit, so that round(x, 2) is a conversion that loses something. *)

\* a date string "YYYY-MM-DD"
DateYMD(y, m, d) == [form |-> "ymd", a |-> y, b |-> m, c |-> d]

\* a date string "DD-MM-YYYY"
DateDMY(d, m, y) == [form |-> "dmy", a |-> d, b |-> m, c |-> y]

\* a string that is no date
DateText == [form |-> "text", a |-> 0, b |-> 0, c |-> 0]

\* pd.to_datetime(date, format='mixed', dayfirst=True) of one string: the
\* ISO form is read as it is, a day-month-year string day first unless the
\* second number is no month, and any other string raises
to_datetime(date) ==
    CASE date.form = "ymd" -> [ok |-> TRUE, year |-> date.a, month |-> date.b]
      [] date.form = "dmy" ->
            IF date.b <= 12 THEN [ok |-> TRUE, year |-> date.c, month |-> date.b]
            ELSE [ok |-> TRUE, year |-> date.c, month |-> date.a]
      [] OTHER -> [ok |-> FALSE, year |-> 0, month |-> 0]

\* .dt.to_period('M'): the ordinal of the month
to_period(dt) == dt.year * 12 + (dt.month - 1)

\* str(month) of a monthly period: "YYYY-MM"
MonthString(period) == [year |-> period \div 12, month |-> (period % 12) + 1]

\* str.lower() on the category types of the model
Lower(str) == IF str = "Income" THEN "income" ELSE str

\* .str[1] of a split with a single part
NaN == "NaN"

\* round(x, 2): to the nearest hundredth (a multiple of 10 thousandths), a tie
\* to the even hundredth
Round2(x) ==
    LET q == x \div 10
        r == x % 10
    IN  IF r < 5 THEN 10 * q
        ELSE IF r > 5 THEN 10 * (q + 1)
        ELSE IF q % 2 = 0 THEN 10 * q ELSE 10 * (q + 1)

\* the fields of a categorized transaction that the aggregation reads
Transaction(date, category, debit, credit) ==
    [date |-> date, category |-> category, debit |-> debit, credit |-> credit]

\* the transactions the input lists are made of
InputMenu ==
    { Transaction(DateYMD(2024, 1, 5), <<"income", "salary">>, 0, 1004),
      Transaction(DateDMY(10, 1, 2024), <<"income", "interest">>, 0, 1004),
      Transaction(DateYMD(2024, 1, 5), <<"income", "bonus">>, 0, 1004),
      Transaction(DateYMD(2024, 1, 20), <<"Income", "refund">>, 0, 1004),
      Transaction(DateYMD(2023, 12, 31), <<"expense", "food">>, 8000, 0),
      Transaction(DateYMD(2024, 1, 5), <<"expense", "food">>, 2500, 500),
      Transaction(DateYMD(2024, 1, 5), <<"transfer", "self">>, 0, 7000),
      Transaction(DateYMD(2023, 12, 31), <<"income", "salary">>, 300, 0),
      Transaction(DateYMD(2024, 2, 5), <<"expense">>, 400, 0),
      Transaction(DateText, <<"expense", "rent">>, 100, 0) }

\* the subcategory names of the model in the order of str comparison
SubcategoryNames == <<"bonus", "food", "interest", "refund", "rent", "salary", "self">>

\* a < b on subcategory names
NameLess(a, b) ==
    \E i \in 1..Len(SubcategoryNames) : \E j \in 1..Len(SubcategoryNames) :
        i < j /\ SubcategoryNames[i] = a /\ SubcategoryNames[j] = b

\* an empty DataFrame
EmptyDataFrame == <<>>

\* prepare_transaction_dataframe on a list of transactions: one row per
\* transaction, or an empty DataFrame when the list is empty or a date raises
prepare_transaction_dataframe(txs) ==
    IF txs = <<>> THEN EmptyDataFrame
    ELSE IF \E i \in 1..Len(txs) : ~to_datetime(txs[i].date).ok THEN EmptyDataFrame
    ELSE [i \in 1..Len(txs) |->
            [month |-> to_period(to_datetime(txs[i].date)),
             debit |-> txs[i].debit,
             credit |-> txs[i].credit,
             category_type |-> Lower(txs[i].category[1]),
             sub_category |-> IF Len(txs[i].category) >= 2 THEN txs[i].category[2]
                              ELSE NaN]]

\* the key of a row in the groupby
GroupKey(r) == <<r.month, r.category_type, r.sub_category>>

\* the sum of a column over the rows of df with the given key
RECURSIVE SumRows(_, _, _)
SumRows(df, column, key) ==
    IF df = <<>> THEN 0
    ELSE (IF GroupKey(Head(df)) = key THEN Head(df)[column] ELSE 0)
         + SumRows(Tail(df), column, key)

\* df.groupby(['month', 'category_type', 'sub_category']).agg(sum): one row
\* per key that occurs, rows with a NaN key left out
grouped_data(df) ==
    { [month |-> df[i].month, category_type |-> df[i].category_type,
       sub_category |-> df[i].sub_category,
       debit |-> SumRows(df, "debit", GroupKey(df[i])),
       credit |-> SumRows(df, "credit", GroupKey(df[i]))] :
      i \in {j \in 1..Len(df) : df[j].sub_category # NaN} }

\* column.sum() over a set of grouped rows
RECURSIVE SumColumn(_, _)
SumColumn(rows, column) ==
    IF rows = {} THEN 0
    ELSE LET r == CHOOSE x \in rows : TRUE
         IN  r[column] + SumColumn(rows \ {r}, column)

\* df['month'].unique(): the months in the order of first appearance
RECURSIVE unique(_)
unique(df) ==
    IF df = <<>> THEN <<>>
    ELSE LET rest == unique(SubSeq(df, 1, Len(df) - 1))
             m == df[Len(df)].month
         IN  IF \E i \in 1..Len(rest) : rest[i] = m THEN rest ELSE Append(rest, m)

\* sorted(df['month'].unique())
SortedMonths(df) == SortNumeric(unique(df))

\* sorted(items, key=the item's key): ascending by subcategory name
RECURSIVE SortByKey(_)
SortByKey(items) ==
    IF items = {} THEN <<>>
    ELSE LET first == CHOOSE x \in items :
                         \A y \in items \ {x} : NameLess(x.sub_category, y.sub_category)
         IN  <<first>> \o SortByKey(items \ {first})

\* a breakdown that also lists the subcategories with amount 0
BreakdownWithZeros(rows, column) ==
    SortByKey({ [sub_category |-> r.sub_category, amount |-> Round2(r[column])] :
                r \in {x \in rows : x[column] >= 0} })

\* income_breakdown / expense_breakdown: the rows with a positive amount, one
\* item {sub_category: round(amount, 2)} each, sorted by key
Breakdown(rows, column) ==
    SortByKey({ [sub_category |-> r.sub_category, amount |-> Round2(r[column])] :
                r \in {x \in rows : x[column] > 0} })

\* the data of the month whatever the category type
InMonth(grouped, month, category_type) == {g \in grouped : g.month = month}

\* month_data[month_data['category_type'] == category_type]
TypeData(grouped, month, category_type) ==
    {g \in grouped : g.month = month /\ g.category_type = category_type}

\* a month entry whose totals are net of the other column
MonthEntryNet(grouped, month) ==
    LET income_data == TypeData(grouped, month, "income")
        expense_data == TypeData(grouped, month, "expense")
        income_amount == Round2(SumColumn(income_data, "credit")
                                - SumColumn(income_data, "debit"))
        expense_amount == Round2(SumColumn(expense_data, "debit")
                                 - SumColumn(expense_data, "credit"))
    IN  [month |-> MonthString(month),
         income |-> income_amount,
         expense |-> expense_amount,
         savings |-> Round2(income_amount - expense_amount),
         income_breakdown |-> Breakdown(income_data, "credit"),
         expense_breakdown |-> Breakdown(expense_data, "debit")]

\* the month entry of calculate_monthly_breakdown
MonthEntry(grouped, month) ==
    LET income_data == TypeData(grouped, month, "income")
        expense_data == TypeData(grouped, month, "expense")
        income_amount == Round2(SumColumn(income_data, "credit"))
        expense_amount == Round2(SumColumn(expense_data, "debit"))
    IN  [month |-> MonthString(month),
         income |-> income_amount,
         expense |-> expense_amount,
         savings |-> Round2(income_amount - expense_amount),
         income_breakdown |-> Breakdown(income_data, "credit"),
         expense_breakdown |-> Breakdown(expense_data, "debit")]

\* calculate_monthly_breakdown(df)
calculate_monthly_breakdown(df) ==
    IF df = EmptyDataFrame THEN <<>>
    ELSE LET months == SortedMonths(df)
         IN  [k \in 1..Len(months) |-> MonthEntry(grouped_data(df), months[k])]

\* an empty dict
EmptyDict == <<>>

\* a column of the DataFrame of the monthly breakdown
Column(breakdown, field) == [k \in 1..Len(breakdown) |-> breakdown[k][field]]

\* Series.median(): the middle value of the sorted values, the mean of the
\* two middle values when their number is even
Median(values) ==
    LET sorted == SortNumeric(values)
        n == Len(sorted)
    IN  IF n % 2 = 1 THEN sorted[(n + 1) \div 2]
        ELSE (sorted[n \div 2] + sorted[(n \div 2) + 1]) \div 2

\* round(float(median), 2): a median halfway between two hundredths goes to
\* either, as the binary value of the float decides
RoundMedian(x, up) ==
    IF x % 10 = 5 THEN (IF up THEN x + 5 ELSE x - 5) ELSE Round2(x)

\* flatten_breakdown(monthly_data, key): one row per item of the breakdowns
flatten_breakdown(monthly_data, key) ==
    Extend([k \in 1..Len(monthly_data) |->
              [i \in 1..Len(monthly_data[k][key]) |->
                  [month |-> monthly_data[k].month,
                   category |-> monthly_data[k][key][i].sub_category,
                   amount |-> monthly_data[k][key][i].amount]]])

\* the amounts of the rows of a category
RECURSIVE CategoryAmounts(_, _)
CategoryAmounts(rows, category) ==
    IF rows = <<>> THEN <<>>
    ELSE (IF Head(rows).category = category THEN <<Head(rows).amount>> ELSE <<>>)
         \o CategoryAmounts(Tail(rows), category)

\* category medians in which a month without the category counts as 0
CategoryMediansWithZeros(breakdown, key, up) ==
    LET rows == flatten_breakdown(breakdown, key)
    IN  [c \in {rows[i].category : i \in 1..Len(rows)} |->
            RoundMedian(Median(CategoryAmounts(rows, c)
                               \o [k \in 1..(Len(breakdown)
                                             - Len(CategoryAmounts(rows, c))) |-> 0]), up)]

\* groupby("category")["amount"].median().to_dict(), each value rounded
CategoryMedians(breakdown, key, up) ==
    LET rows == flatten_breakdown(breakdown, key)
    IN  [c \in {rows[i].category : i \in 1..Len(rows)} |->
            RoundMedian(Median(CategoryAmounts(rows, c)), up)]

\* calculate_median_summary(monthly_breakdown): on an empty list the DataFrame
\* has no column 'income', the KeyError is caught and {} returned
calculate_median_summary(breakdown, up) ==
    IF breakdown = <<>> THEN EmptyDict
    ELSE [median_income |-> RoundMedian(Median(Column(breakdown, "income")), up),
          median_expense |-> RoundMedian(Median(Column(breakdown, "expense")), up),
          median_savings |-> RoundMedian(Median(Column(breakdown, "savings")), up),
          median_income_breakdown |-> CategoryMedians(breakdown, "income_breakdown", up),
          median_expense_breakdown |-> CategoryMedians(breakdown, "expense_breakdown", up)]

\* the shapes of response_data: a list of transactions, a dict holding the
\* list under data.analysis, a dict whose 'data' is no dict, anything else
InputShapes == {"list", "dict", "data_not_dict", "other"}

\* generate_transaction_breakdown without its try
TransactionBreakdownUncaught(shape, data, up) ==
    IF shape = "data_not_dict"
    THEN [kind |-> "raise", monthly_breakdown |-> <<>>, median_summary |-> EmptyDict]
    ELSE LET df == IF shape = "other" THEN EmptyDataFrame
                   ELSE prepare_transaction_dataframe(data)
             breakdown == calculate_monthly_breakdown(df)
         IN  [kind |-> "return", monthly_breakdown |-> breakdown,
              median_summary |-> calculate_median_summary(breakdown, up)]

\* what generate_transaction_breakdown returns: .get on a 'data' that is no
\* dict raises before the try of prepare_transaction_dataframe, and the
\* except of generate_transaction_breakdown returns the empty result
TransactionBreakdown(shape, data, up) ==
    IF shape = "data_not_dict"
    THEN [kind |-> "return", monthly_breakdown |-> <<>>, median_summary |-> EmptyDict]
    ELSE LET df == IF shape = "other" THEN EmptyDataFrame
                   ELSE prepare_transaction_dataframe(data)
             breakdown == calculate_monthly_breakdown(df)
         IN  [kind |-> "return", monthly_breakdown |-> breakdown,
              median_summary |-> calculate_median_summary(breakdown, up)]

\* generate_transaction_breakdown(response_data)
generate_transaction_breakdown ==
    /\ apc = "called"
    /\ \E up \in BOOLEAN :
          LET result == TransactionBreakdown(response_shape, response_data, up)
          IN  /\ monthly_breakdown' = result.monthly_breakdown
              /\ median_summary' = result.median_summary
              /\ apc' = IF result.kind = "raise" THEN "raised" ELSE "done"
    /\ UNCHANGED <<s3Vars, chunkVars, taskVars, progVars, response_data, response_shape>>

AggregateIdle ==
    /\ apc = "idle"
    /\ response_shape = "list"
    /\ response_data = <<>>
    /\ monthly_breakdown = <<>>
    /\ median_summary = EmptyDict

-----------------------------------------------------------------------------
(* Document storage: aws_service.extract_tables_from_pdf *)

\* the names a statement may be submitted under
FileNames == {"a.pdf", "b.pdf"}

\* BytesIO(file_content) with file_obj.name = filename, as the Celery task
\* builds it
BytesIOFile(filename) == [type |-> "BytesIO", filename |-> filename]

\* an UploadFile of the web framework
UploadFileOf(filename) == [type |-> "UploadFile", filename |-> filename]

\* the file objects handed to extract_tables_from_pdf
Files == {BytesIOFile(n) : n \in FileNames} \cup {UploadFileOf("a.pdf")}

\* lines 148-151: filename is file.filename for an UploadFile and
\* 'statement.pdf' for anything else; s3_key = f"uploads/{filename}", written
\* as the pair of its path segments
S3Key(file) ==
    LET filename == IF file.type = "UploadFile" THEN file.filename ELSE "statement.pdf"
    IN  <<"uploads", filename>>

\* the keys of the bucket
S3Keys == {S3Key(f) : f \in Files}

\* no object under the key, no document read
NoObject == 0

\* s3_client.delete_object(Bucket, Key)
delete_object(b, key) == [b EXCEPT ![key] = NoObject]

\* lines 150-153: the document of task t is uploaded under s3_key; if the
\* upload raises, the finally clause deletes whatever is under s3_key
upload_fileobj_to_s3(t, ok) ==
    /\ epc[t] = "call"
    /\ IF ok
       THEN /\ bucket' = [bucket EXCEPT ![S3Key(files[t])] = t]
            /\ epc' = [epc EXCEPT ![t] = "uploaded"]
       ELSE /\ bucket' = delete_object(bucket, S3Key(files[t]))
            /\ epc' = [epc EXCEPT ![t] = "raised"]
    /\ UNCHANGED <<chunkVars, taskVars, progVars, aggVars, files, job_document>>

\* lines 155-159: the Textract job is started on the key; if the call raises,
\* the finally clause deletes the object
start_document_analysis(t, ok) ==
    /\ epc[t] = "uploaded"
    /\ IF ok
       THEN /\ epc' = [epc EXCEPT ![t] = "started"]
            /\ UNCHANGED bucket
       ELSE /\ bucket' = delete_object(bucket, S3Key(files[t]))
            /\ epc' = [epc EXCEPT ![t] = "raised"]
    /\ UNCHANGED <<chunkVars, taskVars, progVars, aggVars, files, job_document>>

\* the Textract job, which runs on its own after it was started, reads the
\* object that is under the key at that moment
TextractReads(t) ==
    /\ epc[t] = "started"
    /\ job_document' = [job_document EXCEPT ![t] = bucket[S3Key(files[t])]]
    /\ epc' = [epc EXCEPT ![t] = "analysed"]
    /\ UNCHANGED <<chunkVars, taskVars, progVars, aggVars, files, bucket>>

\* lines 161-183: process_textract_job returns the tables of the document the
\* job read, or raises when the job has failed; either way the object under
\* s3_key is deleted before extract_tables_from_pdf returns or raises
process_textract_job(t) ==
    /\ epc[t] = "analysed"
    /\ bucket' = delete_object(bucket, S3Key(files[t]))
    /\ epc' = [epc EXCEPT ![t] = IF job_document[t] = NoObject THEN "raised" ELSE "returned"]
    /\ UNCHANGED <<chunkVars, taskVars, progVars, aggVars, files, job_document>>

\* no task is extracting tables
StorageIdle ==
    /\ files = [t \in TaskIds |-> BytesIOFile("a.pdf")]
    /\ bucket = [k \in S3Keys |-> NoObject]
    /\ epc = [t \in TaskIds |-> "idle"]
    /\ job_document = [t \in TaskIds |-> NoObject]

-----------------------------------------------------------------------------
(* Specification of the chunk scheduler *)

\* the sizes of the lists handed directly to categorize_transactions
DirectSizes == {0, 1, CategorizeChunkSize, CategorizeChunkSize + 1, MaxTx}

\* no stage of gpt_service is running
ChunkIdle ==
    /\ pc = "idle" /\ tables = <<>> /\ transactions = <<>>
    /\ xchunks = <<>> /\ xw = <<>> /\ xsent = <<>> /\ xorder = <<>>
    /\ xret = NoReturn
    /\ cin = <<>> /\ cchunks = <<>> /\ cw = <<>> /\ csent = <<>> /\ corder = <<>>
    /\ nodot = <<>>
    /\ cret = NoReturn
    /\ has_data = FALSE /\ aretry = 0 /\ actx = NoReturn

\* Either analyze_table_structure is about to be called on a dict of
\* 0..MaxTables tables (keys "Table 1".."Table n" in the order the table
\* extractor inserts them) and its result goes on to extract_transactions and
\* categorize_transactions, or categorize_transactions is about to be called on
\* a list of uncategorized transactions
Init ==
    /\ TaskIdle /\ ProgressIdle /\ AggregateIdle /\ StorageIdle
    /\ xchunks = <<>> /\ xw = <<>> /\ xsent = <<>> /\ xorder = <<>>
    /\ xret = NoReturn
    /\ cin = <<>> /\ cchunks = <<>> /\ cw = <<>> /\ csent = <<>> /\ corder = <<>>
    /\ nodot = <<>>
    /\ cret = NoReturn
    /\ aretry = 0
    /\ actx = NoReturn
    /\ \/ /\ pc = "analyze_call"
          /\ \E n \in 0..MaxTables : tables = [i \in 1..n |-> i]
          /\ has_data \in BOOLEAN
          /\ has_data => tables # <<>>
          /\ transactions = <<>>
       \/ /\ pc = "categorize_call"
          /\ tables = <<>>
          /\ has_data = FALSE
          /\ \E n \in DirectSizes : transactions = [i \in 1..n |-> Tx(i)]

ExtractOracleCall(c) ==
    \E answer \in ExtractionAnswers(c) : ExtractCall(c, answer)

Next ==
    \/ AnalyzeStart
    \/ AnalyzeOracleCall
    \/ ExtractStart
    \/ \E c \in 1..(MaxTables + 1) : ExtractOracleCall(c)
    \/ ExtractFinish
    \/ CategorizeCall
    \/ CategorizeStart
    \/ \E c \in 1..(MaxTx + 1) : CategorizeOracleCall(c)
    \/ CategorizeFinish

Spec == Init /\ [][Next]_vars

-----------------------------------------------------------------------------
(* Properties of the chunk scheduler *)

\* extract_transactions has fanned in and its coroutines are still in view
ExtractFinished == pc = "extract_returned" \/ (pc = "raised" /\ xret.kind = "raise")

\* categorize_transactions has fanned in
CategorizeFinished == pc = "done" \/ (pc = "raised" /\ cret.kind = "raise")

\* every element of the sequence equals the first one
AllSame(s) == \A i \in 1..Len(s) : s[i] = s[1]

\* the dicts of categorization chunk c as they were when the stage was called
ChunkInput(c) == ChunkDicts(cin, cchunks[c].chunk)

\* what the fallback must give for categorization chunk c
DefaultedChunk(c) == WithCategory(ChunkInput(c), DefaultCategory)

\* number of items the chunks before chunk c contributed
RECURSIVE ItemsBefore(_, _)
ItemsBefore(workers, c) ==
    IF c = 1 THEN 0 ELSE ItemsBefore(workers, c - 1) + Len(workers[c - 1].result)

\* C3 as stated: the fallback is applied only after max_retries + 1 failed
\* oracle calls of the chunk, all with the same input.
C3_FallbackAfterFourCalls ==
    /\ \A c \in 1..Len(xw) :
          xw[c].fallback => Len(xsent[c]) = max_retries + 1 /\ AllSame(xsent[c])
    /\ \A c \in 1..Len(cw) :
          cw[c].fallback => Len(csent[c]) = max_retries + 1 /\ AllSame(csent[c])

\* C3 amended: a chunk worker calls the oracle at most max_retries times in all
\* (the first call and max_retries - 1 retries), every call with the same chunk
\* input as the first, and the fallback is applied exactly when max_retries
\* calls have failed.
C3_FallbackAfterMaxRetriesCalls ==
    /\ \A c \in 1..Len(xw) :
          /\ AllSame(xsent[c])
          /\ \A i \in 1..Len(xsent[c]) : xsent[c][i] = xchunks[c].chunk_tables
          /\ Len(xsent[c]) <= max_retries
          /\ xw[c].fallback <=> (xw[c].done /\ xw[c].retry_count = max_retries)
          /\ xw[c].fallback => Len(xsent[c]) = max_retries
          /\ ~xw[c].done => xw[c].retry_count = Len(xsent[c])
    /\ \A c \in 1..Len(cw) :
          /\ AllSame(csent[c])
          /\ \A i \in 1..Len(csent[c]) : csent[c][i] = ChunkInput(c)
          /\ Len(csent[c]) <= max_retries
          /\ cw[c].fallback <=> (cw[c].done /\ cw[c].retry_count = max_retries)
          /\ cw[c].fallback => Len(csent[c]) = max_retries
          /\ ~cw[c].done => cw[c].retry_count = Len(csent[c])

C3_Witness ==
    /\ pc = "categorize_gather"
    /\ \E c \in 1..Len(cw) :
          cw[c].fallback /\ Len(csent[c]) = max_retries /\ Len(csent[c][1]) = CategorizeChunkSize

\* C4: when a chunk exhausts its retries its fallback output is in the merged
\* result exactly once and at the chunk's position: every input transaction of
\* a failed categorization chunk with category expense.others, nothing for a
\* failed extraction chunk; the other chunks' items are as their workers
\* returned them.
C4_FallbackInMergedResult ==
    /\ pc = "extract_returned" =>
          /\ \A c \in 1..Len(xw) : xw[c].fallback => xw[c].result = <<>>
          /\ Len(xret.value) = ItemsBefore(xw, Len(xw) + 1)
          /\ \A c \in 1..Len(xw) :
                SubSeq(xret.value, ItemsBefore(xw, c) + 1, ItemsBefore(xw, c + 1))
                    = IF xw[c].fallback THEN <<>> ELSE xw[c].result
    /\ pc = "done" =>
          /\ Len(cret.value) = ItemsBefore(cw, Len(cw) + 1)
          /\ \A c \in 1..Len(cw) :
                SubSeq(cret.value, ItemsBefore(cw, c) + 1, ItemsBefore(cw, c + 1))
                    = IF cw[c].fallback THEN DefaultedChunk(c) ELSE cw[c].result

C4_Witness ==
    /\ pc = "done"
    /\ Len(cw) = 3
    /\ cw[2].fallback /\ ~cw[1].fallback /\ ~cw[3].fallback
    /\ cw[1].result # <<>> /\ cw[3].result # <<>>

\* C5: if every chunk succeeds, the merged result is the concatenation of the
\* accepted oracle answers in ascending chunk number, each in the order the
\* oracle listed it, whatever the order in which the chunks completed.
C5_MergeInChunkOrder ==
    /\ (pc = "extract_returned" /\ \A c \in 1..Len(xw) : ~xw[c].fallback) =>
          /\ xret.value = Extend([c \in 1..Len(xw) |-> xw[c].result])
          /\ \A c \in 1..Len(xw) :
                \E n \in 0..MaxRows : xw[c].result = ExtractedItems(xchunks[c].chunk_num, n)
    /\ (pc = "done" /\ \A c \in 1..Len(cw) : ~cw[c].fallback) =>
          /\ cret.value = Extend([c \in 1..Len(cw) |-> cw[c].result])
          /\ \A c \in 1..Len(cw) : \A i \in 1..Len(cw[c].result) :
                WithoutCategory(cw[c].result[i]) = ChunkInput(c)[i]

C5_Witness ==
    /\ pc = "done"
    /\ Len(cw) = 3
    /\ \A c \in 1..Len(cw) : ~cw[c].fallback /\ cw[c].result # <<>>
    /\ corder = <<3, 1, 2>>

\* ceil(n / k)
CeilDiv(n, k) == (n + k - 1) \div k

\* the lists are consecutive pieces of items, all of k elements but the last,
\* which has 1..k, and there are ceil(Len(items) / k) of them
IsPartition(pieces, items, k) ==
    /\ Len(pieces) = CeilDiv(Len(items), k)
    /\ Extend(pieces) = items
    /\ \A m \in 1..Len(pieces) :
          /\ m < Len(pieces) => Len(pieces[m]) = k
          /\ Len(pieces[m]) \in 1..k

\* C6: N work items with chunk size k are cut into exactly ceil(N/k)
\* consecutive chunks (k = 2 numerically sorted tables, k = 40 transactions):
\* every item is in exactly one chunk, input order is kept within and across
\* chunks, every chunk but the last has k items and the last has 1..k.
C6_ChunkPartition ==
    /\ pc = "extract_gather" =>
          /\ IsPartition([m \in 1..Len(xchunks) |-> xchunks[m].chunk_tables],
                         SortNumeric(tables), ExtractChunkSize)
          /\ \A m \in 1..Len(xchunks) : xchunks[m].chunk_num = m
          /\ \A i \in 1..Len(tables) : \A j \in 1..Len(tables) :
                i < j => SortNumeric(tables)[i] < SortNumeric(tables)[j]
    /\ pc = "categorize_gather" =>
          /\ IsPartition([m \in 1..Len(cchunks) |-> ChunkInput(m)],
                         cin, CategorizeChunkSize)
          /\ \A m \in 1..Len(cchunks) : cchunks[m].chunk_num = m

C6_Witness ==
    /\ pc = "categorize_gather"
    /\ Len(cin) = 2 * CategorizeChunkSize + 1
    /\ Len(cchunks) = 3
    /\ Len(cchunks[3].chunk) = 1

\* C7 as stated: the two stages raise only on total failure (no chunk
\* succeeded and the fallbacks produced no item) or on empty input.
C7_RaiseOnlyOnTotalFailure ==
    /\ (pc = "raised" /\ xret.kind = "raise") =>
          \/ tables = <<>>
          \/ \A c \in 1..Len(xw) : xw[c].fallback
    /\ (pc = "raised" /\ cret.kind = "raise") =>
          \/ cin = <<>>
          \/ \A c \in 1..Len(cw) : cw[c].fallback /\ cw[c].result = <<>>

\* C7 amended: the two stages raise exactly when the merged list is empty,
\* that is when no chunk contributed an item (each chunk failed into an empty
\* fallback or succeeded with an empty list; this covers empty input); whenever
\* some chunk contributed an item they return the merged list, whichever
\* chunks failed.
C7_RaiseIffMergedEmpty ==
    /\ (pc = "raised" /\ xret.kind = "raise") =>
          \A c \in 1..Len(xw) : xw[c].result = <<>>
    /\ pc = "extract_returned" =>
          /\ xret.kind = "return" /\ xret.value # <<>>
          /\ \E c \in 1..Len(xw) : xw[c].result # <<>>
    /\ (pc = "raised" /\ cret.kind = "raise") =>
          \A c \in 1..Len(cw) : cw[c].result = <<>>
    /\ pc = "done" =>
          /\ cret.kind = "return" /\ cret.value # <<>>
          /\ \E c \in 1..Len(cw) : cw[c].result # <<>>
    /\ pc \in {"extract_call", "extract_gather"} => xret.kind = "none"
    /\ pc \in {"extract_call", "extract_gather", "extract_returned", "categorize_call",
               "categorize_gather"} => cret.kind = "none"

C7_Witness ==
    /\ pc = "extract_returned"
    /\ Len(xw) = 3
    /\ xw[1].fallback /\ xw[3].fallback /\ ~xw[2].fallback

\* the failure report that comes with a stage's return value: the return value
\* is the merged list alone, so it reports whatever a 'failed_chunks' entry of
\* the returned record holds, and nothing if there is none
ReportedFailures(ret) ==
    IF "failed_chunks" \in DOMAIN ret THEN ret.failed_chunks ELSE {}

\* C8: together with the merged result a chunked stage returns a failure
\* report listing every chunk that exhausted its retries and no chunk that
\* succeeded.
C8_FailureReport ==
    /\ pc = "extract_returned" =>
          ReportedFailures(xret) = {c \in 1..Len(xw) : xw[c].fallback}
    /\ pc = "done" =>
          ReportedFailures(cret) = {c \in 1..Len(cw) : cw[c].fallback}

\* C9: every transaction of the list categorize_transactions returns has a
\* category of the closed list of the categorization prompt (and so matches
\* ^(income|expense|transfer)\.[a-z_]+$), whatever the oracle answered.
C9_CategoryInClosedSet ==
    pc = "done" =>
        \A i \in 1..Len(cret.value) :
            /\ "category" \in DOMAIN cret.value[i]
            /\ cret.value[i].category \in PromptCategories

\* C10: an answer in which some record's category has no '.' is rejected (the
\* chunk does not return it: it retries or falls back), so no record without
\* '.' is in a chunk's result; a chunk all of whose answers were such answers
\* ends with every one of its transactions under 'expense.others'.
C10_NoDotRejected ==
    /\ [][\A c \in 1..Len(cw) :
            \A answer \in CategorizationAnswers(ChunkDicts(transactions, cchunks[c].chunk)) :
                (pc = "categorize_gather" /\ AnswerHasNoDot(answer)
                    /\ CategorizeAttempt(c, answer))
                => (cw'[c].done => cw'[c].fallback)]_vars
    /\ [](\A c \in 1..Len(cw) :
            /\ \A i \in 1..Len(cw[c].result) : ~HasNoDot(cw[c].result[i].category)
            /\ (cw[c].done /\ nodot[c]) =>
                  /\ cw[c].fallback
                  /\ cw[c].result = DefaultedChunk(c)
                  /\ \A k \in 1..Len(cchunks[c].chunk) :
                        transactions[cchunks[c].chunk[k]].category = DefaultCategory)

C10_Witness ==
    /\ pc = "done"
    /\ \E c \in 1..Len(cw) :
          /\ cw[c].done /\ nodot[c] /\ cw[c].fallback
          /\ Len(cw[c].result) = CategorizeChunkSize
          /\ \E i \in 1..Len(cret.value) : cret.value[i] = cw[c].result[1]

-----------------------------------------------------------------------------
(* Specification of the task state store *)

\* no task has been submitted; the store can be reached or not
InitTask ==
    /\ polled = NoPoll
    /\ ChunkIdle /\ ProgressIdle /\ AggregateIdle /\ StorageIdle
    /\ valkey_up \in BOOLEAN
    /\ issued = {}
    /\ run = [t \in TaskIds |-> [pc |-> "none", retries |-> 0, error |-> NoError]]
    /\ store = [t \in TaskIds |-> NoEntry]

NextTask ==
    \/ \E t \in TaskIds : \E sent \in BOOLEAN : Submit(t, sent)
    \/ \E t \in TaskIds : TaskBegin(t)
    \/ \E t \in TaskIds : \E raises \in BOOLEAN : TaskStage(t, raises)
    \/ \E t \in TaskIds : TaskDone(t)
    \/ \E t \in TaskIds : TaskFailed(t)

SpecTask == InitTask /\ [][NextTask]_vars

-----------------------------------------------------------------------------
(* Specification of the task state store with its clients and its expiry *)

\* a step of the Celery worker for task t
WorkerStep(t) ==
    \/ TaskBegin(t)
    \/ \E raises \in BOOLEAN : TaskStage(t, raises)
    \/ TaskDone(t)
    \/ TaskFailed(t)

NextStore ==
    \/ \E t \in TaskIds : \E sent \in BOOLEAN : Submit(t, sent)
    \/ \E t \in TaskIds : WorkerStep(t)
    \/ \E t \in TaskIds : Expire(t)
    \/ \E t \in TaskIds : Poll(t)

\* the worker keeps working on a task it has, and time advances, so that an
\* expiry that has been set elapses
SpecStore ==
    /\ InitTask
    /\ [][NextStore]_vars
    /\ \A t \in TaskIds : WF_vars(WorkerStep(t)) /\ WF_vars(Expire(t))

-----------------------------------------------------------------------------
(* Specification of the progress event bus *)

InitProgress == ChunkIdle /\ TaskIdle /\ ProgressIdle /\ AggregateIdle /\ StorageIdle

NextProgress ==
    \/ \E t \in BusTaskIds : PipelineStart(t)
    \/ \E t \in BusTaskIds : \E raises \in BOOLEAN : PipelineStage(t, raises)
    \/ \E s \in Subscribers : \E t \in BusTaskIds : Listen(s, t)
    \/ \E s \in Subscribers : Receive(s)

SpecProgress == InitProgress /\ [][NextProgress]_vars

\* C11: categorize_transactions returns the records it was given with the
\* category populated: as many records as the input, in the input's order,
\* each with the date, description, debit, credit and balance of the input
\* record at the same position.
C11_SameRecordsCategorized ==
    pc = "done" =>
        /\ Len(cret.value) = Len(cin)
        /\ \A i \in 1..Len(cret.value) :
              /\ "category" \in DOMAIN cret.value[i]
              /\ i <= Len(cin) => WithoutCategory(cret.value[i]) = cin[i]

\* this step sends a prompt of an extraction chunk to the oracle
ExtractionCallIssued ==
    /\ Len(xsent') = Len(xsent)
    /\ \E c \in 1..Len(xsent) : Len(xsent'[c]) > Len(xsent[c])

\* this step sends a prompt of a categorization chunk to the oracle
CategorizationCallIssued ==
    /\ Len(csent') = Len(csent)
    /\ \E c \in 1..Len(csent) : Len(csent'[c]) > Len(csent[c])

\* C12: a chunked stage returns or raises only when every one of its chunk
\* workers has resolved; an extraction prompt is sent only after
\* analyze_table_structure has returned, and a categorization prompt only
\* after extract_transactions has returned (or, when categorize_transactions
\* is called on its own, with no earlier stage at all).
C12_StagesSequential ==
    [][/\ xret' # xret => (Len(xw) = Len(xchunks) /\ \A c \in 1..Len(xw) : xw[c].done)
       /\ cret' # cret => (Len(cw) = Len(cchunks) /\ \A c \in 1..Len(cw) : cw[c].done)
       /\ ExtractionCallIssued => (actx.kind = "return" /\ xret.kind = "none")
       /\ CategorizationCallIssued =>
              /\ cret.kind = "none"
              /\ \/ actx.kind = "return" /\ xret.kind = "return"
                 \/ actx.kind = "none" /\ xret.kind = "none"]_vars

C12_Witness ==
    /\ pc = "done"
    /\ actx.kind = "return" /\ xret.kind = "return"
    /\ Len(tables) > 2 * ExtractChunkSize
    /\ csent[1] # <<>>

\* C14: whatever analyze_table_structure returns has all five column roles
\* in column_types and at least one example row, so nothing less reaches
\* extract_transactions.
C14_ContextComplete ==
    actx.kind = "return" =>
        /\ ColumnRoles \subseteq DOMAIN actx.value.column_types
        /\ Len(actx.value.example_transactions) >= 1

\* one step of a chunk worker from w to w2, with the prompts sent before and
\* after it: a call is made only by a worker that has not returned and is one
\* of at most max_retries; a call whose answer is accepted ends the worker;
\* the value returned is a list, and if it is not the fallback it is the
\* records of an accepted answer; a worker that has returned stays as it is
WorkerStepAsClaimed(w, w2, sent, sent2, accepted_values) ==
    /\ sent2 # sent => (~w.done /\ Len(sent2) <= max_retries)
    /\ (sent2 # sent /\ w2.retry_count = w.retry_count) => (w2.done /\ ~w2.fallback)
    /\ (w2.done /\ ~w.done) => w2.is_list
    /\ (w2.done /\ ~w.done /\ ~w2.fallback) => w2.result \in accepted_values
    /\ w.done => (w2 = w /\ sent2 = sent)

\* the record lists of the answers process_chunk_async accepts for chunk c
ExtractionAccepted(c) ==
    {ExtractionOutcome(answer).value :
        answer \in {a \in ExtractionAnswers(c) : ExtractionOutcome(a).ok}}

\* the record lists of the answers process_categorization_chunk_async accepts
\* for chunk c
CategorizationAccepted(c) ==
    {CategorizationOutcome(answer).value :
        answer \in {a \in CategorizationAnswers(ChunkDicts(transactions, cchunks[c].chunk)) :
                        CategorizationOutcome(a).ok}}

\* C34: whatever the oracle answers, a chunk worker calls it at most
\* max_retries times, makes no call after the first answer that passes
\* validation, and returns a list: the records of that answer unchanged, or
\* the fallback value.
C34_WorkerReturnsList ==
    [][/\ Len(xw') = Len(xw) =>
            \A c \in 1..Len(xw) :
                WorkerStepAsClaimed(xw[c], xw'[c], xsent[c], xsent'[c], ExtractionAccepted(c))
       /\ Len(cw') = Len(cw) =>
            \A c \in 1..Len(cw) :
                WorkerStepAsClaimed(cw[c], cw'[c], csent[c], csent'[c], CategorizationAccepted(c))]_vars

-----------------------------------------------------------------------------
(* Properties of the task state store and of the progress event bus *)

\* C1: once the status stored under a task id is 'done' or 'failed' no later
\* write changes it, and no further execution is scheduled under that id (a
\* retry of the whole task gets a new task id).
C1_TerminalStatusIsFinal ==
    [][\A t \in TaskIds :
          store[t].status \in {"done", "failed"} =>
              /\ store'[t].status = store[t].status
              /\ run'[t].retries = run[t].retries]_vars

\* number of events with progress 100 in a list of events
TerminalEvents(events) == Cardinality({i \in 1..Len(events) : events[i].progress = 100})

\* C2: for every pipeline run, whether it returns or raises, exactly one event
\* with progress 100 has been published for the task, it is the last event
\* published, and after a failure it carries an error.
C2_OneTerminalEvent ==
    \A t \in BusTaskIds :
        ppc[t] \in {"returned", "raised"} =>
            /\ TerminalEvents(published[t]) = 1
            /\ published[t][Len(published[t])].progress = 100
            /\ ppc[t] = "raised" => published[t][Len(published[t])].data = "error"

\* str(e) of the structural failures: no tables at all, no valid analysis
\* result on any attempt, no transaction extracted
FatalErrors == StageErrors("analysis") \cup StageErrors("extract")

\* C13: when a stage of an execution of the task raises one of the structural
\* failures, no later stage of that execution runs, the execution's next step
\* writes status 'failed' with the error text through set_task_status (the
\* entry holds it whenever the store is reachable), and that execution writes
\* no 'done' status or result.
C13_FatalAborts ==
    /\ [](\A t \in TaskIds : run[t].error # NoError => run[t].pc = "write_failed")
    /\ [][\A t \in TaskIds :
            /\ (run[t].error \in FatalErrors /\ run'[t] # run[t]) =>
                  /\ store' = set_task_status(store, t, "failed", [error |-> run[t].error],
                                              TerminalExpiry)
                  /\ valkey_up =>
                        store'[t] = [status |-> "failed", result |-> [error |-> run[t].error],
                                     ex |-> TerminalExpiry]
                  /\ run'[t].pc \in {"queued", "gave_up"}
            /\ (store'[t].status = "done" /\ store'[t] # store[t]) =>
                  run[t].pc = "write_done" /\ run[t].error = NoError]_vars

C13_Witness ==
    \E t \in TaskIds :
        /\ run[t].pc = "gave_up"
        /\ store[t].status = "failed"
        /\ store[t].result.error \in StageErrors("extract")

\* the task was accepted and no execution of it has begun
AcceptedNotBegun(t) == run[t].pc = "queued" /\ run[t].retries = 0

\* C15: once process_pdf_analysis has returned {task_id, status: queued} the
\* store holds an entry under that id: with status 'queued' until the worker
\* begins, and some entry from then on (as long as nothing has expired).
C15_QueuedEntryOnSubmit ==
    \A t \in TaskIds :
        /\ AcceptedNotBegun(t) => store[t].status = "queued"
        /\ run[t].pc \notin {"none", "rejected"} => store[t] # NoEntry

\* what Get(id) of the store holds for the id
StoredAnswer(st, task_id) ==
    IF st[task_id] = NoEntry THEN NotFound
    ELSE [status |-> st[task_id].status, result |-> st[task_id].result]

\* C16: a poll of a task id answers the status and result last written under
\* the id if the entry exists, and NotFound ('Invalid task ID') if it does not.
C16_PollAnswersFromStore ==
    [][\A t \in TaskIds :
          (polled' # polled /\ polled'.task = t /\ valkey_up) =>
              polled'.answer = StoredAnswer(store, t)]_vars

\* the summary part of a stored result, under either of its names
ResultSummary(result) ==
    IF "summary" \in DOMAIN result THEN result.summary
    ELSE IF "analysis" \in DOMAIN result THEN result.analysis
    ELSE [none |-> ""]

\* C17: an entry with status 'done' holds the full payload: the categorized
\* transactions and the summary with monthly_breakdown and median_summary.
C17_DoneCarriesFullPayload ==
    \A t \in TaskIds :
        store[t].status = "done" =>
            /\ "transactions" \in DOMAIN store[t].result
            /\ {"monthly_breakdown", "median_summary"} \subseteq DOMAIN ResultSummary(store[t].result)

\* C18: every entry written carries an expiry: 3600 s with a non-terminal
\* status, 900 s with 'done' or 'failed', and the terminal one is the shorter.
C18_ExpiryByStatus ==
    /\ TerminalExpiry < InProgressExpiry
    /\ \A t \in TaskIds :
          /\ store[t] # NoEntry => store[t].ex > 0
          /\ store[t].status \in {"done", "failed"} => store[t].ex = TerminalExpiry
          /\ (store[t] # NoEntry /\ store[t].status \notin {"done", "failed"}) =>
                store[t].ex = InProgressExpiry

C18_Witness ==
    \E t \in TaskIds : \E u \in TaskIds :
        /\ store[t].status = "in_progress" /\ store[t].ex = InProgressExpiry
        /\ store[u].status = "done" /\ store[u].ex = TerminalExpiry

\* the answer to the last poll, if it was a poll of the accepted task t, is NotFound
LastPollNotFound(t) ==
    (polled.task = t /\ run[t].pc \notin {"none", "rejected"}) => polled.answer = NotFound

\* C19: with the store reachable, for every submitted task there is a point
\* after which every poll of its id answers NotFound.
C19_EventuallyNotFound ==
    valkey_up => \A t \in TaskIds : <>[]LastPollNotFound(t)

\* C20: every submission gets a task id no earlier submission got, and a
\* status write of a task changes the entry under that task's id only.
C20_NoSharedTaskId ==
    [][/\ issued' # issued =>
            \E t \in TaskIds \ issued : issued' = issued \cup {t} /\ store' = store
       /\ \A t \in TaskIds :
            store'[t] # store[t] =>
                /\ t \in issued
                /\ run'[t] # run[t]
                /\ \A u \in TaskIds \ {t} : store'[u] = store[u] /\ run'[u] = run[u]]_vars

C20_Witness ==
    /\ issued = TaskIds
    /\ \E t \in TaskIds : \E u \in TaskIds :
          /\ t # u
          /\ store[t].status = "done"
          /\ store[u].status = "failed"

-----------------------------------------------------------------------------
(* Progress event bus: order, delivery and retention of events *)

\* the progress bus with a pipeline that keeps running once started and
\* subscribers that take an event whenever one is pending
SpecProgressLive ==
    /\ InitProgress
    /\ [][NextProgress]_vars
    /\ \A t \in BusTaskIds : WF_vars(\E raises \in BOOLEAN : PipelineStage(t, raises))
    /\ \A s \in Subscribers : WF_vars(Receive(s))

\* a is b with some elements left out, the others in the order of b
RECURSIVE IsSubsequence(_, _)
IsSubsequence(a, b) ==
    IF a = <<>> THEN TRUE
    ELSE IF b = <<>> THEN FALSE
    ELSE IF Head(a) = Head(b) THEN IsSubsequence(Tail(a), Tail(b))
    ELSE IsSubsequence(a, Tail(b))

\* subscriber s iterates listen(t) and t had a queue when it began
ActiveOn(s, t) ==
    /\ subs[s].state # "idle"
    /\ subs[s].task = t
    /\ subs[s].received # <<TaskNotFound>>

\* the stage of a running pipeline
PipelineRunning(t) == ppc[t] \in {PipelineStages[i] : i \in 1..Len(PipelineStages)}

\* C21: for each task the progress values of the events published during a
\* pipeline run are integers from 0 to 100 and never decrease in the order of
\* publication.
C21_ProgressMonotone ==
    \A t \in BusTaskIds :
        \A i \in 1..Len(published[t]) :
            /\ published[t][i].progress \in 0..100
            /\ \A j \in i..Len(published[t]) :
                  published[t][i].progress <= published[t][j].progress

C21_Witness ==
    \E t \in BusTaskIds :
        /\ ppc[t] = "returned"
        /\ Len(published[t]) = 6
        /\ published[t][1].progress = 10
        /\ published[t][6].progress = 100

\* C22: a subscriber of a task that has a queue receives events of that task
\* in the order of publication; it takes an event only when one is pending,
\* and while it waits the pipeline can still publish; its stream is closed
\* exactly when it has received an event with progress 100, which is then the
\* last event it received.
C22_SubscriberStream ==
    /\ [](\A s \in Subscribers : \A t \in BusTaskIds :
            ActiveOn(s, t) =>
                /\ IsSubsequence(subs[s].received, published[t])
                /\ \A i \in 1..Len(subs[s].received) :
                      subs[s].received[i].progress >= 100 => i = Len(subs[s].received)
                /\ subs[s].state = "closed" <=>
                      /\ subs[s].received # <<>>
                      /\ subs[s].received[Len(subs[s].received)].progress = 100
                /\ (subs[s].state = "listening" /\ listeners[t].items = <<>>
                        /\ PipelineRunning(t)) => ENABLED PipelineStage(t, FALSE))
    /\ [][\A s \in Subscribers :
            (subs[s].state = "listening" /\ subs'[s] # subs[s]) =>
                /\ listeners[subs[s].task].items # <<>>
                /\ subs'[s].received =
                      Append(subs[s].received, Head(listeners[subs[s].task].items))
                /\ listeners'[subs[s].task].items = Tail(listeners[subs[s].task].items)
                /\ subs'[s].task = subs[s].task]_vars

C22_Witness ==
    \E s \in Subscribers : \E t \in BusTaskIds :
        /\ ActiveOn(s, t)
        /\ subs[s].state = "closed"
        /\ Len(subs[s].received) = 6
        /\ subs[s].received = published[t]

\* C23: update_progress never waits and never loses an event: a running
\* pipeline can always publish, the task has a queue from its first event on,
\* with no subscriber every published event is pending in the queue in
\* order, and a single subscriber that attaches later has received, or still
\* has pending, every event published so far, in order.
C23_PublishWithoutSubscriber ==
    \A t \in BusTaskIds :
        /\ PipelineRunning(t) => ENABLED PipelineStage(t, FALSE)
        /\ ppc[t] = "idle" => ENABLED PipelineStart(t)
        /\ ppc[t] # "idle" => listeners[t].exists /\ published[t] # <<>>
        /\ (\A s \in Subscribers : ~ActiveOn(s, t)) => listeners[t].items = published[t]
        /\ \A s \in Subscribers :
              (ActiveOn(s, t) /\ \A o \in Subscribers \ {s} : ~ActiveOn(o, t)) =>
                  subs[s].received \o listeners[t].items = published[t]

C23_Witness ==
    \E s \in Subscribers : \E t \in BusTaskIds :
        /\ ActiveOn(s, t)
        /\ \A o \in Subscribers \ {s} : subs[o].state = "idle"
        /\ subs[s].state = "listening"
        /\ Len(subs[s].received) >= 2
        /\ Len(listeners[t].items) >= 2
        /\ subs[s].received[1].progress = 10

\* C24: when the pipeline of a task has returned and no event is pending,
\* every subscriber of the task has received every event published for it
\* and its stream is closed.
C24_EverySubscriberGetsAll ==
    \A t \in BusTaskIds : \A s \in Subscribers :
        (ActiveOn(s, t) /\ ppc[t] = "returned" /\ listeners[t].items = <<>>) =>
            /\ subs[s].state = "closed"
            /\ subs[s].received = published[t]

\* C25: get_progress(task_id) is None for a task id no event was published
\* for, and else holds the progress, message and data of the event published
\* last.
C25_SnapshotIsLastEvent ==
    \A t \in BusTaskIds :
        IF published[t] = <<>>
        THEN get_progress(t) = NoSnapshot
        ELSE /\ get_progress(t).exists
             /\ Payload(get_progress(t).progress, get_progress(t).message,
                        get_progress(t).data) = published[t][Len(published[t])]

C25_Witness ==
    \E t \in BusTaskIds :
        /\ Len(published[t]) = 4
        /\ get_progress(t).progress = 80
        /\ get_progress(t).data = "transactions_count"

\* C26: the queue of a task is bounded, or, when no subscriber ever attaches
\* to the task, once its pipeline has returned (the event with progress 100
\* is published) the task id eventually has no queue, hence no pending event.
C26_QueueReleased ==
    \A t \in BusTaskIds :
        \/ QueueMaxSize > 0
        \/ [](\A s \in Subscribers : subs[s].task # t) =>
               ((ppc[t] = "returned") ~> (~listeners[t].exists))

\* this step ends an execution of task t that has failed: a retry is
\* scheduled or the task is given up
FailedExecutionEnds(t) ==
    \/ run'[t].retries > run[t].retries
    \/ run'[t].pc = "gave_up" /\ run[t].pc # "gave_up"

\* C36: a task is executed at most 1 + max_retries times; the step that
\* ends a failed execution (by scheduling the retry or by giving up) writes
\* status 'failed' with the text of the exception, so that the entry holds it
\* whenever the store is reachable; a task that has failed on every execution
\* has been executed 1 + max_retries times and the status written last under
\* its id is 'failed'.
C36_RetriesBoundedFailedLast ==
    /\ [](\A t \in TaskIds :
            /\ run[t].retries + 1 <= 1 + TaskMaxRetries
            /\ run[t].pc = "gave_up" =>
                  /\ run[t].retries = TaskMaxRetries
                  /\ store[t].status = IF valkey_up THEN "failed" ELSE "absent")
    /\ [][\A t \in TaskIds :
            FailedExecutionEnds(t) =>
                /\ run[t].pc = "write_failed"
                /\ run[t].error # NoError
                /\ store' = set_task_status(store, t, "failed", [error |-> run[t].error],
                                            TerminalExpiry)
                /\ valkey_up =>
                      (store'[t].status = "failed" /\ store'[t].result.error = run[t].error)]_vars

C36_Witness ==
    \E t \in TaskIds :
        /\ valkey_up
        /\ run[t].pc = "gave_up"
        /\ run[t].retries = TaskMaxRetries
        /\ store[t].status = "failed"
        /\ store[t].result.error \in StageErrors("tables")

\* C35: a subscriber that calls listen for a task id at any moment, also
\* before the first event of the task is published and the queue exists, is
\* delivered the task's events: being the only subscriber, what it has
\* received and what is still pending are together the events published, and
\* its stream ends only with the event of progress 100.
C35_EarlySubscriberGetsAll ==
    \A s \in Subscribers : \A t \in BusTaskIds :
        (/\ subs[s].state # "idle"
         /\ subs[s].task = t
         /\ \A o \in Subscribers \ {s} : subs[o].state = "idle") =>
            /\ subs[s].received \o listeners[t].items = published[t]
            /\ subs[s].state = "closed" =>
                  /\ subs[s].received # <<>>
                  /\ subs[s].received[Len(subs[s].received)].progress = 100

-----------------------------------------------------------------------------
(* Specification of the aggregation: generate_transaction_breakdown on every
   list of at most MaxInput transactions of the menu *)

InitAggregate ==
    /\ ChunkIdle /\ TaskIdle /\ ProgressIdle /\ StorageIdle
    /\ apc = "called"
    /\ \/ /\ response_shape = "list"
          /\ response_data \in UNION {[1..n -> InputMenu] : n \in 0..MaxInput}
       \/ /\ response_shape = "dict"
          /\ response_data \in UNION {[1..n -> InputMenu] : n \in 0..MaxDictInput}
       \/ /\ response_shape \in InputShapes \ {"list", "dict"}
          /\ response_data = <<>>
    /\ monthly_breakdown = <<>>
    /\ median_summary = EmptyDict

NextAggregate == generate_transaction_breakdown

SpecAggregate == InitAggregate /\ [][NextAggregate]_vars

\* the sum of the amounts of a breakdown
RECURSIVE BreakdownSum(_)
BreakdownSum(items) ==
    IF items = <<>> THEN 0 ELSE Head(items).amount + BreakdownSum(Tail(items))

Abs(x) == IF x < 0 THEN -x ELSE x

\* C27: in every monthly summary the amounts of income_breakdown sum to
\* income and the amounts of expense_breakdown sum to expense, within 0.01
\* (10 thousandths).
C27_BreakdownSumsToTotal ==
    apc = "done" =>
        \A k \in 1..Len(monthly_breakdown) :
            /\ Abs(BreakdownSum(monthly_breakdown[k].income_breakdown)
                   - monthly_breakdown[k].income) <= 10
            /\ Abs(BreakdownSum(monthly_breakdown[k].expense_breakdown)
                   - monthly_breakdown[k].expense) <= 10

\* the DataFrame of the input
InputFrame == prepare_transaction_dataframe(response_data)

\* the months of the dates of the input that are dates
InputMonths ==
    { MonthString(to_period(to_datetime(response_data[i].date))) :
      i \in {j \in 1..Len(response_data) : to_datetime(response_data[j].date).ok} }

\* month a is earlier than month b
MonthBefore(a, b) == a.year < b.year \/ (a.year = b.year /\ a.month < b.month)

\* C28: the monthly breakdown has exactly one entry for each distinct month
\* that occurs among the dates of the input transactions, no other entry, and
\* the entries are in ascending order of month.
C28_OneEntryPerMonth ==
    apc = "done" =>
        /\ {monthly_breakdown[k].month : k \in 1..Len(monthly_breakdown)} = InputMonths
        /\ \A j \in 1..Len(monthly_breakdown) : \A k \in 1..Len(monthly_breakdown) :
              j < k => MonthBefore(monthly_breakdown[j].month, monthly_breakdown[k].month)

AllTypes == {"income", "expense", "transfer"}

AllSubcategories == {SubcategoryNames[i] : i \in 1..Len(SubcategoryNames)}

\* the sum of a column over the rows of df of the given month whose category
\* type and subcategory are among the given ones
RECURSIVE MonthSum(_, _, _, _, _)
MonthSum(df, column, month, types, subcategories) ==
    IF df = <<>> THEN 0
    ELSE (IF /\ MonthString(Head(df).month) = month
             /\ Head(df).category_type \in types
             /\ Head(df).sub_category \in subcategories
          THEN Head(df)[column] ELSE 0)
         + MonthSum(Tail(df), column, month, types, subcategories)

\* C29 as stated: for each month, income is the sum of credit and expense the
\* sum of debit over that month's transactions (rounded to two decimals), and
\* savings is income minus expense.
C29_TotalsOverAllTransactions ==
    apc = "done" =>
        \A k \in 1..Len(monthly_breakdown) :
            LET e == monthly_breakdown[k]
            IN  /\ e.income = Round2(MonthSum(InputFrame, "credit", e.month, AllTypes,
                                              AllSubcategories \cup {NaN}))
                /\ e.expense = Round2(MonthSum(InputFrame, "debit", e.month, AllTypes,
                                               AllSubcategories \cup {NaN}))
                /\ e.savings = e.income - e.expense

\* C29 amended: for each month, income is the sum of credit over that month's
\* transactions of category income.<subcategory>, expense the sum of debit
\* over those of category expense.<subcategory> (each rounded to two
\* decimals), and savings is income minus expense.
C29_TotalsByCategoryType ==
    apc = "done" =>
        \A k \in 1..Len(monthly_breakdown) :
            LET e == monthly_breakdown[k]
            IN  /\ e.income = Round2(MonthSum(InputFrame, "credit", e.month, {"income"},
                                              AllSubcategories))
                /\ e.expense = Round2(MonthSum(InputFrame, "debit", e.month, {"expense"},
                                               AllSubcategories))
                /\ e.savings = e.income - e.expense

C29_Witness ==
    /\ apc = "done"
    /\ \E k \in 1..Len(monthly_breakdown) :
          LET e == monthly_breakdown[k]
          IN  /\ e.income > 0 /\ e.expense > 0
              /\ MonthSum(InputFrame, "credit", e.month, {"transfer"}, AllSubcategories) > 0
              /\ MonthSum(InputFrame, "credit", e.month, {"expense"}, AllSubcategories) > 0

\* the items of a breakdown are in ascending order of subcategory name
Ascending(items) ==
    \A i \in 1..Len(items) : \A j \in 1..Len(items) :
        i < j => NameLess(items[i].sub_category, items[j].sub_category)

\* C30: in every monthly summary, income_breakdown lists exactly the
\* subcategories of income whose summed credit in the month is strictly
\* positive, expense_breakdown exactly the subcategories of expense whose
\* summed debit is, each subcategory once, in ascending order of name.
C30_PositiveSubcategoriesSorted ==
    apc = "done" =>
        \A k \in 1..Len(monthly_breakdown) :
            LET e == monthly_breakdown[k]
            IN  /\ {e.income_breakdown[i].sub_category : i \in 1..Len(e.income_breakdown)}
                     = {sub \in AllSubcategories :
                          MonthSum(InputFrame, "credit", e.month, {"income"}, {sub}) > 0}
                /\ {e.expense_breakdown[i].sub_category : i \in 1..Len(e.expense_breakdown)}
                     = {sub \in AllSubcategories :
                          MonthSum(InputFrame, "debit", e.month, {"expense"}, {sub}) > 0}
                /\ Ascending(e.income_breakdown)
                /\ Ascending(e.expense_breakdown)

C30_Witness ==
    /\ apc = "done"
    /\ Len(monthly_breakdown) = 2
    /\ monthly_breakdown[1].income_breakdown = <<>>
    /\ MonthSum(InputFrame, "debit", monthly_breakdown[1].month, {"income"},
                AllSubcategories) > 0
    /\ Len(monthly_breakdown[2].income_breakdown) = 3

\* the standard median of a list of numbers: the middle value in ascending
\* order, the mean of the two middle values (times 2, to stay whole) when
\* their number is even
TwiceStandardMedian(values) ==
    LET n == Len(values)
        \* the k-th smallest value
        Smallest(k) == CHOOSE v \in {values[i] : i \in 1..n} :
                          /\ Cardinality({i \in 1..n : values[i] < v}) < k
                          /\ Cardinality({i \in 1..n : values[i] <= v}) >= k
    IN  IF n % 2 = 1 THEN 2 * Smallest((n + 1) \div 2)
        ELSE Smallest(n \div 2) + Smallest((n \div 2) + 1)

\* x is m rounded to a hundredth, m given as twice its value: x is a hundredth
\* at most half a hundredth away from m
IsRounded(x, twice_m) == x % 10 = 0 /\ Abs(2 * x - twice_m) <= 10

\* the amounts a subcategory has in the breakdowns of the months that list it
RECURSIVE AmountsListed(_, _, _)
AmountsListed(breakdown, key, sub) ==
    IF breakdown = <<>> THEN <<>>
    ELSE LET items == Head(breakdown)[key]
             here == {i \in 1..Len(items) : items[i].sub_category = sub}
         IN  (IF here = {} THEN <<>> ELSE <<items[CHOOSE i \in here : TRUE].amount>>)
             \o AmountsListed(Tail(breakdown), key, sub)

\* the keys of a median breakdown are the subcategories some month lists, and
\* each value is the rounded standard median of the listed amounts
MediansOfListed(medians, key) ==
    /\ DOMAIN medians =
          {sub \in AllSubcategories : AmountsListed(monthly_breakdown, key, sub) # <<>>}
    /\ \A sub \in DOMAIN medians :
          IsRounded(medians[sub],
                    TwiceStandardMedian(AmountsListed(monthly_breakdown, key, sub)))

\* C31: for a breakdown of at least one month, median_income, median_expense
\* and median_savings are the standard medians of the monthly values (rounded
\* to two decimals), for a single month that month's own values, and the
\* median of each subcategory is the standard median of its amounts in the
\* months that list it, a month without it not counting as zero.
C31_StandardMedians ==
    (apc = "done" /\ monthly_breakdown # <<>>) =>
        /\ IsRounded(median_summary.median_income,
                     TwiceStandardMedian(Column(monthly_breakdown, "income")))
        /\ IsRounded(median_summary.median_expense,
                     TwiceStandardMedian(Column(monthly_breakdown, "expense")))
        /\ IsRounded(median_summary.median_savings,
                     TwiceStandardMedian(Column(monthly_breakdown, "savings")))
        /\ Len(monthly_breakdown) = 1 =>
              /\ median_summary.median_income = monthly_breakdown[1].income
              /\ median_summary.median_expense = monthly_breakdown[1].expense
              /\ median_summary.median_savings = monthly_breakdown[1].savings
        /\ MediansOfListed(median_summary.median_income_breakdown, "income_breakdown")
        /\ MediansOfListed(median_summary.median_expense_breakdown, "expense_breakdown")

C31_Witness ==
    /\ apc = "done"
    /\ Len(monthly_breakdown) = 3
    /\ Len(AmountsListed(monthly_breakdown, "income_breakdown", "salary")) = 1
    /\ Len(AmountsListed(monthly_breakdown, "expense_breakdown", "food")) = 2
    /\ median_summary.median_income_breakdown["salary"] = 1000
    /\ median_summary.median_expense_breakdown["food"] = 5250

\* C32: for an empty transaction list, and whenever the monthly breakdown is
\* empty, monthly_breakdown is [] and median_summary holds median_income,
\* median_expense and median_savings 0 and two empty breakdowns.
C32_EmptyInputGivesZeros ==
    (apc = "done" /\ (response_data = <<>> \/ monthly_breakdown = <<>>)) =>
        /\ monthly_breakdown = <<>>
        /\ DOMAIN median_summary = {"median_income", "median_expense", "median_savings",
                                    "median_income_breakdown", "median_expense_breakdown"}
        /\ median_summary.median_income = 0
        /\ median_summary.median_expense = 0
        /\ median_summary.median_savings = 0
        /\ DOMAIN median_summary.median_income_breakdown = {}
        /\ DOMAIN median_summary.median_expense_breakdown = {}

\* the transactions of the input whose date is a date
RECURSIVE Dated(_)
Dated(txs) ==
    IF txs = <<>> THEN <<>>
    ELSE (IF to_datetime(Head(txs).date).ok THEN <<Head(txs)>> ELSE <<>>) \o Dated(Tail(txs))

\* C33: the monthly breakdown and the medians of a list that holds a
\* transaction with an unparseable date are those of the list without it.
C33_UndatedRowExcluded ==
    (apc = "done" /\ Dated(response_data) # response_data) =>
        /\ monthly_breakdown =
              calculate_monthly_breakdown(prepare_transaction_dataframe(Dated(response_data)))
        /\ \E up \in BOOLEAN :
              median_summary = calculate_median_summary(monthly_breakdown, up)

\* a transaction with the amounts that must not count set to 0: both amounts
\* of a transfer, the debit of an income and the credit of an expense
CountedOnly(tx) ==
    LET type == Lower(tx.category[1])
    IN  [tx EXCEPT !.debit = IF type \in {"transfer", "income"} THEN 0 ELSE @,
                   !.credit = IF type \in {"transfer", "expense"} THEN 0 ELSE @]

\* C38: the amounts of transfer.* transactions, the debits of income.*
\* transactions and the credits of expense.* transactions change nothing: the
\* monthly breakdown is the one of the same list with those amounts 0.
C38_OnlyIncomeCreditsExpenseDebits ==
    apc = "done" =>
        monthly_breakdown =
            calculate_monthly_breakdown(prepare_transaction_dataframe(
                [i \in 1..Len(response_data) |-> CountedOnly(response_data[i])]))

C38_Witness ==
    /\ apc = "done"
    /\ monthly_breakdown # <<>>
    /\ \E i \in 1..Len(response_data) :
          response_data[i].category[1] = "transfer" /\ response_data[i].credit > 0
    /\ \E i \in 1..Len(response_data) :
          response_data[i].category[1] = "expense" /\ response_data[i].credit > 0
    /\ \E i \in 1..Len(response_data) :
          response_data[i].category[1] = "income" /\ response_data[i].debit > 0

\* C39: generate_transaction_breakdown never raises: whatever the shape of
\* its argument and the dates in it, the call returns, and what it returns
\* holds a monthly breakdown (a list, empty after an error) and a median
\* summary (a dict, empty after an error).
C39_BreakdownNeverRaises ==
    /\ apc # "raised"
    /\ (/\ apc = "done"
        /\ \/ response_shape \in {"data_not_dict", "other"}
           \/ Dated(response_data) # response_data) =>
           (monthly_breakdown = <<>> /\ DOMAIN median_summary = {})

C39_Witness ==
    /\ apc = "done"
    /\ response_shape = "data_not_dict"
    /\ monthly_breakdown = <<>>

-----------------------------------------------------------------------------
(* Specification of the document storage: the Celery tasks extract the tables
   of their documents concurrently *)

\* every task is about to call extract_tables_from_pdf on its file object;
\* the bucket is empty
InitStorage ==
    /\ ChunkIdle /\ TaskIdle /\ ProgressIdle /\ AggregateIdle
    /\ files \in [TaskIds -> Files]
    /\ bucket = [k \in S3Keys |-> NoObject]
    /\ epc = [t \in TaskIds |-> "call"]
    /\ job_document = [t \in TaskIds |-> NoObject]

NextStorage ==
    \/ \E t \in TaskIds : \E ok \in BOOLEAN : upload_fileobj_to_s3(t, ok)
    \/ \E t \in TaskIds : \E ok \in BOOLEAN : start_document_analysis(t, ok)
    \/ \E t \in TaskIds : TextractReads(t)
    \/ \E t \in TaskIds : process_textract_job(t)

SpecStorage == InitStorage /\ [][NextStorage]_vars

\* C37: two tasks that extract tables concurrently do not interfere through
\* the bucket: from its upload until its Textract job has read the document,
\* the object under a task's key is the document that task uploaded, and the
\* document the job of a task reads is the task's own.
C37_NoStorageInterference ==
    \A t \in TaskIds :
        /\ epc[t] \in {"uploaded", "started"} => bucket[S3Key(files[t])] = t
        /\ epc[t] \in {"analysed", "returned"} => job_document[t] = t

=============================================================================
